---- MODULE Spec2Model ----
(***************************************************************************)
(* kway: an on-screen keyboard.  The model covers the per-key gesture      *)
(* recognizer (src/src/ui/key.rs), the dispatcher that turns the signals   *)
(* of a key into messages (src/src/ui/keyboard.rs), the message channel of *)
(* the UI component (src/src/ui/mod.rs), the keyboard state that handles   *)
(* the messages (src/src/keyboard.rs) and the layout loader                *)
(* (src/src/layout.rs).                                                    *)
(***************************************************************************)
EXTENDS Integers, Sequences, FiniteSets, TLC

(***************************************************************************)
(* Program constants.                                                      *)
(***************************************************************************)
SWIPE_MIN_DISTANCE == 5
SWIPE_ANGLE_TOLERANCE == 15
SWIPE_MIN_INCREMENT == 5
HOLD_TERM == 500

\* evdev scan codes used by the layouts of the model
KEY_A == 30
KEY_S == KEY_A + 1
KEY_D == KEY_A + 2
KEY_BACKSPACE == 14
KEY_LEFTCTRL == 29
KEY_LEFTSHIFT == 42
KEY_LEFTALT == 56
KEY_LEFTMETA == 125
KEY_RIGHTCTRL == 97
KEY_RIGHTSHIFT == 54
KEY_RIGHTALT == 100
KEY_RIGHTMETA == 126
KEY_CAPSLOCK == 58
KEY_NUMLOCK == 69
KEY_SCROLLLOCK == 70
KEY_UP == 103
KEY_LEFT == 105
KEY_RIGHT == 106
KEY_DOWN == 108

\* the code of the left pointer button (PointerButton::into)
BTN_LEFT == 272

(***************************************************************************)
(* Bounds of the model.                                                    *)
(***************************************************************************)
\* move samples of the interactions in progress, together
MaxMoves == 2
\* hold timers that are scheduled and have not fired yet, over all keys
MaxTimers == 2
\* messages waiting in the channel when a callback may still run
MaxInbox == 0

(***************************************************************************)
(* Arithmetic helpers: f64 and u32 operations on the values of the model.  *)
(***************************************************************************)
Abs(n) == IF n < 0 THEN -n ELSE n

\* tan(tolerance in degrees) * 10^6, rounded, for the tolerances the
\* sources use (15 in ui/key.rs, 25 in ui/swipe.rs)
TanMicro(tol) == CASE tol = 15 -> 267949 [] tol = 25 -> 466308

RECURSIVE BitAnd(_, _)
BitAnd(a, b) ==
    IF a = 0 \/ b = 0 THEN 0
    ELSE (IF a % 2 = 1 /\ b % 2 = 1 THEN 1 ELSE 0) + 2 * BitAnd(a \div 2, b \div 2)

RECURSIVE BitOr(_, _)
BitOr(a, b) ==
    IF a = 0 THEN b
    ELSE IF b = 0 THEN a
    ELSE (IF a % 2 = 1 \/ b % 2 = 1 THEN 1 ELSE 0) + 2 * BitOr(a \div 2, b \div 2)

\* a & !b on u32: !b flips all 32 bits, so the result keeps the bits of a
\* that b does not have
BitAndNot(a, b) == a - BitAnd(a, b)

(***************************************************************************)
(* Direction of a swipe (ui/key.rs).  "None" is Option::None.              *)
(***************************************************************************)
Directions == {"Up", "Left", "Right", "Down"}

\* deg = atan2(y, x) in degrees, in (-180, 180].  With t = tan(tolerance):
\*   |-90 - deg| <= tol  iff  y < 0 and |x| <= t * |y|
\*   |deg| <= tol        iff  x >= 0 and |y| <= t * x     (atan2(0, 0) = 0)
\*   |180 - deg| <= tol  iff  x < 0, y >= 0 and y <= t * |x|
\*   |90 - deg| <= tol   iff  y > 0 and |x| <= t * y
DirectionTol(x, y, tol) ==
    IF y < 0 /\ Abs(x) * 1000000 <= TanMicro(tol) * Abs(y) THEN "Up"
    ELSE IF x >= 0 /\ Abs(y) * 1000000 <= TanMicro(tol) * x THEN "Right"
    ELSE IF x < 0 /\ y >= 0 /\ y * 1000000 <= TanMicro(tol) * Abs(x) THEN "Left"
    ELSE IF y > 0 /\ Abs(x) * 1000000 <= TanMicro(tol) * y THEN "Down"
    ELSE "None"

direction(x, y) == DirectionTol(x, y, SWIPE_ANGLE_TOLERANCE)

\* as DistanceAtLeast, were every distance large enough
DistanceAtLeast_always(x1, y1, x2, y2, d) == TRUE

\* distance(x1, y1, x2, y2) >= d, on integers: sqrt is monotone
DistanceAtLeast(x1, y1, x2, y2, d) ==
    (x2 - x1) * (x2 - x1) + (y2 - y1) * (y2 - y1) >= d * d

(***************************************************************************)
(* Layout (layout.rs).                                                     *)
(***************************************************************************)
Modifiers == {"Alt", "Ctrl", "Shift", "Meta"}

Modifier_code(m) ==
    CASE m = "Alt" -> KEY_LEFTALT
      [] m = "Ctrl" -> KEY_LEFTCTRL
      [] m = "Shift" -> KEY_LEFTSHIFT
      [] m = "Meta" -> KEY_LEFTMETA

\* SwipeAction values; NoAction is Option::None
NoAction == [a |-> "None", key |-> 0, mods |-> <<>>, side |-> "None", idx |-> 0]
ActKey(k) == [NoAction EXCEPT !.a = "Key", !.key = k]
ActModKey(k, ms) == [NoAction EXCEPT !.a = "ModKey", !.key = k, !.mods = ms]
ActModified(m) == [NoAction EXCEPT !.a = "Modified", !.mods = <<m>>]
ActLayer(s, i) == [NoAction EXCEPT !.a = "Layer", !.side = s, !.idx = i]
ActArrow == [NoAction EXCEPT !.a = "Arrow"]
ActScroll == [NoAction EXCEPT !.a = "Scroll"]
ActSelect == [NoAction EXCEPT !.a = "Select"]
ActDelete == [NoAction EXCEPT !.a = "Delete"]
ActCommand == [NoAction EXCEPT !.a = "Command"]
ActHideKeyboard == [NoAction EXCEPT !.a = "HideKeyboard"]

\* KeyDef::Basic(BasicKey)
BasicKey(k, ms, n, e, w, s) ==
    [type |-> "Basic", key |-> k, modifiers |-> ms,
     up |-> n, right |-> e, left |-> w, down |-> s]

\* KeyType::from(evdev::Key)
KeyType(code) ==
    IF code \in {KEY_LEFTCTRL, KEY_RIGHTCTRL, KEY_LEFTMETA, KEY_RIGHTMETA,
                 KEY_LEFTSHIFT, KEY_RIGHTSHIFT, KEY_LEFTALT, KEY_RIGHTALT}
    THEN "Mod"
    ELSE IF code \in {KEY_CAPSLOCK, KEY_NUMLOCK, KEY_SCROLLLOCK} THEN "Lock"
    ELSE "Normal"

\* BasicKey::dir_action
dir_action(def, dir) ==
    CASE dir = "Up" -> def.up
      [] dir = "Right" -> def.right
      [] dir = "Left" -> def.left
      [] dir = "Down" -> def.down

\* impl From<Direction> for evdev::Key
DirKey(dir) ==
    CASE dir = "Up" -> KEY_UP
      [] dir = "Right" -> KEY_RIGHT
      [] dir = "Left" -> KEY_LEFT
      [] dir = "Down" -> KEY_DOWN

(***************************************************************************)
(* Messages sent to the UI component (UIMessage, KeyMessage,               *)
(* PointerMessage), flattened to one record shape.                         *)
(***************************************************************************)
Msg(t, code, side, idx) == [t |-> t, code |-> code, side |-> side, idx |-> idx]
ButtonPress(c) == Msg("ButtonPress", c, "None", 0)
ButtonRelease(c) == Msg("ButtonRelease", c, "None", 0)
ModPress(c) == Msg("ModPress", c, "None", 0)
ModRelease(c) == Msg("ModRelease", c, "None", 0)
LockPress(c) == Msg("LockPress", c, "None", 0)
LockRelease(c) == Msg("LockRelease", c, "None", 0)
LayerMsg(side, idx) == Msg("Layer", 0, side, idx)
MouseLayer(enable) == Msg("MouseLayer", 0, "None", IF enable THEN 1 ELSE 0)
UpdateLayout == Msg("UpdateLayout", 0, "None", 0)
HideKeyboard == Msg("HideKeyboard", 0, "None", 0)
CommandMsg == Msg("Command", 0, "None", 0)
ScrollMsg(dir) == Msg("Scroll" \o dir, 0, "None", 0)
PointerMove == Msg("Move", 0, "None", 0)
PointerPress(button) == Msg("PointerPress", button, "None", 0)
PointerRelease(button) == Msg("PointerRelease", button, "None", 0)

Codes(ms) == [i \in 1..Len(ms) |-> Modifier_code(ms[i])]
ModPresses(cs) == [i \in 1..Len(cs) |-> ModPress(cs[i])]
ModReleases(cs) == [i \in 1..Len(cs) |-> ModRelease(cs[i])]

send_key(key) == <<ButtonPress(key), ButtonRelease(key)>>

\* as send_mod_key, were the modifier sent as a key
send_mod_key_as_key(modifier, key) ==
    <<ButtonPress(modifier), ButtonPress(key), ButtonRelease(key), ButtonRelease(modifier)>>

send_mod_key(modifier, key) ==
    <<ModPress(modifier), ButtonPress(key), ButtonRelease(key), ModRelease(modifier)>>

\* as send_mods_key, were the modifiers removed before the key is sent
send_mods_key_releases_first(modifiers, key) ==
    ModPresses(modifiers) \o ModReleases(modifiers)
        \o <<ButtonPress(key), ButtonRelease(key)>>

send_mods_key(modifiers, key) ==
    ModPresses(modifiers) \o <<ButtonPress(key), ButtonRelease(key)>>
        \o ModReleases(modifiers)

handle_swipe_action_press(def, action, dir) ==
    CASE action.a = "Key" -> send_key(action.key)
      [] action.a = "ModKey" ->
            send_mods_key(Codes(action.mods), action.key)
      [] action.a = "Modified" -> send_mod_key(Modifier_code(action.mods[1]), def.key)
      [] action.a = "Layer" -> <<LayerMsg(action.side, action.idx), UpdateLayout>>
      [] action.a = "Arrow" -> send_key(DirKey(dir))
      [] action.a = "Select" -> send_mod_key(Modifier_code("Shift"), DirKey(dir))
      [] action.a = "Delete" -> send_mod_key(Modifier_code("Shift"), DirKey(dir))
      [] action.a = "Scroll" -> <<ScrollMsg(dir)>>
      [] action.a = "Command" -> <<CommandMsg>>
      [] action.a = "HideKeyboard" -> <<>>

\* as handle_swipe_action_repeat, were every action run again on repeat
handle_swipe_action_repeat_every_action(def, action, dir) ==
    handle_swipe_action_press(def, action, dir)

handle_swipe_action_repeat(def, action, dir) ==
    IF action.a \in {"Scroll", "Delete", "Select", "Arrow"}
    THEN handle_swipe_action_press(def, action, dir)
    ELSE <<>>

\* as handle_swipe_action_release, without the branch of Layer
handle_swipe_action_release_no_layer(def, action, dir) ==
    CASE action.a = "Delete" -> send_key(KEY_BACKSPACE)
      [] action.a = "HideKeyboard" -> <<HideKeyboard>>
      [] OTHER -> <<>>

handle_swipe_action_release(def, action, dir) ==
    CASE action.a = "Layer" -> <<LayerMsg(action.side, 0), UpdateLayout>>
      [] action.a = "Delete" -> send_key(KEY_BACKSPACE)
      [] action.a = "HideKeyboard" -> <<HideKeyboard>>
      [] OTHER -> <<>>

(***************************************************************************)
(* The signal handlers that render() connects to the button of a key       *)
(* (ui/keyboard.rs).  st is the swipe direction the handlers of a Normal   *)
(* Basic key share (ArcSwapOption<Direction>, "None" when empty).  Each    *)
(* handler gives the messages it sends and the new value of st.            *)
(***************************************************************************)
\* the widget of the key is a KeyButton (with the gesture recognizer), and
\* not a gtk::ToggleButton
IsKeyButton(def) == IF def.type = "Basic" THEN KeyType(def.key) = "Normal" ELSE TRUE

Handled(st, msgs, ran) == [state |-> st, msgs |-> msgs, ran |-> ran]

\* as on_tap_pressed, were the key pressed before its co-modifiers
on_tap_pressed_key_first(def, st) ==
    CASE def.type = "Basic" ->
            Handled(st, <<ButtonPress(def.key)>>
                            \o ModPresses(Codes(def.modifiers)), "tap")
      [] def.type = "PointerButton" -> Handled(st, <<PointerPress(def.button)>>, "tap")
      [] OTHER -> Handled(st, <<>>, "none")

on_tap_pressed(def, st) ==
    CASE def.type = "Basic" ->
            Handled(st, ModPresses(Codes(def.modifiers))
                            \o <<ButtonPress(def.key)>>, "tap")
      [] def.type = "PointerButton" -> Handled(st, <<PointerPress(def.button)>>, "tap")
      [] OTHER -> Handled(st, <<>>, "none")

\* as on_swipe_pressed, were the direction recorded before the look-up of
\* its action
on_swipe_pressed_records_first(def, dir, st) ==
    IF def.type = "Basic" /\ dir_action(def, dir).a # "None"
    THEN Handled(dir, handle_swipe_action_press(def, dir_action(def, dir), dir), "swipe")
    ELSE Handled(IF def.type = "Basic" THEN dir ELSE st, <<>>, "none")

on_swipe_pressed(def, dir, st) ==
    IF def.type = "Basic" /\ dir_action(def, dir).a # "None"
    THEN Handled(dir, handle_swipe_action_press(def, dir_action(def, dir), dir), "swipe")
    ELSE Handled(st, <<>>, "none")

\* as on_swipe_repeated, were the direction of a repeat not recorded
on_swipe_repeated_keeps_direction(def, dir, st) ==
    IF def.type = "Basic" /\ dir_action(def, dir).a # "None"
    THEN Handled(st, handle_swipe_action_repeat(def, dir_action(def, dir), dir), "swipe")
    ELSE Handled(st, <<>>, "none")

on_swipe_repeated(def, dir, st) ==
    IF def.type = "Basic" /\ dir_action(def, dir).a # "None"
    THEN Handled(dir, handle_swipe_action_repeat(def, dir_action(def, dir), dir), "swipe")
    ELSE Handled(st, <<>>, "none")

on_freemove(def, st) ==
    IF def.type = "Pointer"
    THEN Handled(st, <<PointerMove, MouseLayer(TRUE), UpdateLayout>>, "move")
    ELSE Handled(st, <<>>, "none")

\* as on_released, were the recorded direction read and not taken
on_released_keeps_direction(def, st) ==
    CASE def.type = "Basic" ->
            IF st # "None"
            THEN IF dir_action(def, st).a # "None"
                 THEN Handled(st,
                          handle_swipe_action_release(def, dir_action(def, st), st),
                          "swipe")
                 ELSE Handled(st, <<>>, "neither")
            ELSE Handled(st, <<ButtonRelease(def.key)>>
                     \o ModReleases(Codes(def.modifiers)),
                     "plain")
      [] def.type = "PointerButton" -> Handled(st, <<PointerRelease(def.button)>>, "other")
      [] def.type = "Command" -> Handled(st, <<CommandMsg>>, "other")
      [] def.type = "Pointer" -> Handled(st, <<MouseLayer(FALSE), UpdateLayout>>, "other")

\* ran: "swipe" when handle_swipe_action_release ran, "plain" when the key and
\* its modifiers were released, "neither" when a direction was recorded and
\* has no action
on_released(def, st) ==
    CASE def.type = "Basic" ->
            IF st # "None"
            THEN IF dir_action(def, st).a # "None"
                 THEN Handled("None",
                          handle_swipe_action_release(def, dir_action(def, st), st),
                          "swipe")
                 ELSE Handled("None", <<>>, "neither")
            ELSE Handled("None", <<ButtonRelease(def.key)>>
                     \o ModReleases(Codes(def.modifiers)),
                     "plain")
      [] def.type = "PointerButton" -> Handled(st, <<PointerRelease(def.button)>>, "other")
      [] def.type = "Command" -> Handled(st, <<CommandMsg>>, "other")
      [] def.type = "Pointer" -> Handled(st, <<MouseLayer(FALSE), UpdateLayout>>, "other")

(***************************************************************************)
(* Keyboard (keyboard.rs).                                                 *)
(***************************************************************************)
\* as map_mod_key, were Meta given a bit of its own
map_mod_key_meta_own_bit(code) ==
    CASE code \in {KEY_LEFTCTRL, KEY_RIGHTCTRL} -> 4
      [] code \in {KEY_LEFTMETA, KEY_RIGHTMETA} -> 64
      [] code \in {KEY_LEFTSHIFT, KEY_RIGHTSHIFT} -> 1
      [] code \in {KEY_LEFTALT, KEY_RIGHTALT} -> 8
      [] OTHER -> 0

map_mod_key(code) ==
    CASE code \in {KEY_LEFTCTRL, KEY_RIGHTCTRL} -> 4
      [] code \in {KEY_LEFTMETA, KEY_RIGHTMETA} -> 4
      [] code \in {KEY_LEFTSHIFT, KEY_RIGHTSHIFT} -> 1
      [] code \in {KEY_LEFTALT, KEY_RIGHTALT} -> 8
      [] OTHER -> 0

\* as map_lock_key, without Scrolllock
map_lock_key_without_scrolllock(code) ==
    CASE code = KEY_CAPSLOCK -> 2
      [] code = KEY_NUMLOCK -> 256
      [] OTHER -> 0

map_lock_key(code) ==
    CASE code = KEY_CAPSLOCK -> 2
      [] code = KEY_NUMLOCK -> 256
      [] code = KEY_SCROLLLOCK -> 32768
      [] OTHER -> 0

\* self.modifiers |= mod_code
append_mod(mods, code) == BitOr(mods, map_mod_key(code))

\* self.modifiers &= !mod_code
remove_mod(mods, code) == BitAndNot(mods, map_mod_key(code))

append_lock(lks, code) == BitOr(lks, map_lock_key(code))

remove_lock(lks, code) == BitAndNot(lks, map_lock_key(code))

\* as switch_layer, were the index stored for both sides
switch_layer_both_sides(lyr, side, idx) == <<idx, idx>>

\* KeyMessage::Layer(side, idx) and KeyMessage::MouseLayer(enable) on
\* self.layer, a pair (left, right); nleft is self.layout.left.len()
switch_layer(lyr, side, idx) ==
    IF side = "Left" THEN <<idx, lyr[2]>> ELSE <<lyr[1], idx>>

\* as mouse_layer, were the left layer left at 0
mouse_layer_stays(lyr, enable, nleft) == <<0, lyr[2]>>

mouse_layer(lyr, enable, nleft) ==
    IF enable THEN <<nleft - 1, lyr[2]>> ELSE <<0, lyr[2]>>

\* Keyboard::handle: the operation of Keyboard a KeyMessage runs.  press and
\* release forward a key event (keyboard.key), the others change a field of
\* Keyboard, and those of modifiers and locks forward the bitmasks
\* (keyboard.modifiers); the other messages are not for Keyboard.
Keyboard_handle(m) ==
    CASE m.t = "ButtonPress" -> [op |-> "press", code |-> m.code]
      [] m.t = "ButtonRelease" -> [op |-> "release", code |-> m.code]
      [] m.t = "ModPress" -> [op |-> "add_modifier", code |-> m.code]
      [] m.t = "ModRelease" -> [op |-> "remove_modifier", code |-> m.code]
      [] m.t = "LockPress" -> [op |-> "add_lock", code |-> m.code]
      [] m.t = "LockRelease" -> [op |-> "remove_lock", code |-> m.code]
      [] m.t = "Layer" -> [op |-> "switch_layer", code |-> m.idx]
      [] m.t = "MouseLayer" -> [op |-> "mouse_layer", code |-> m.idx]
      [] OTHER -> [op |-> "none", code |-> 0]

\* the operations of Keyboard that a sequence of messages runs, in order
Operations(msgs) == [i \in 1..Len(msgs) |-> Keyboard_handle(msgs[i])]

\* the distance of one scroll (ptr/mod.rs)
SCROLL_STEP == 10

\* a call of the virtual pointer device
DeviceCall(call, x, y) == [call |-> call, x |-> x, y |-> y]

\* as Pointer_handle, were the vertical scroll inverted
Pointer_handle_inverted_scroll(m) ==
    CASE m.t = "ScrollUp" -> DeviceCall("scroll_y", 0, 0 - SCROLL_STEP)
      [] m.t = "ScrollDown" -> DeviceCall("scroll_y", 0, SCROLL_STEP)
      [] m.t = "ScrollLeft" -> DeviceCall("scroll_x", 0 - SCROLL_STEP, 0)
      [] m.t = "ScrollRight" -> DeviceCall("scroll_x", SCROLL_STEP, 0)
      [] m.t = "Move" -> DeviceCall("smooth_move_mouse", m.code, m.idx)
      [] m.t = "PointerPress" -> DeviceCall("press", m.code, 0)
      [] m.t = "PointerRelease" -> DeviceCall("release", m.code, 0)
      [] OTHER -> DeviceCall("none", 0, 0)

\* Pointer::handle: the call of the virtual pointer device that a
\* PointerMessage runs; the other messages are not for Pointer
Pointer_handle(m) ==
    CASE m.t = "ScrollUp" -> DeviceCall("scroll_y", 0, SCROLL_STEP)
      [] m.t = "ScrollDown" -> DeviceCall("scroll_y", 0, 0 - SCROLL_STEP)
      [] m.t = "ScrollLeft" -> DeviceCall("scroll_x", 0 - SCROLL_STEP, 0)
      [] m.t = "ScrollRight" -> DeviceCall("scroll_x", SCROLL_STEP, 0)
      [] m.t = "Move" -> DeviceCall("smooth_move_mouse", m.code, m.idx)
      [] m.t = "PointerPress" -> DeviceCall("press", m.code, 0)
      [] m.t = "PointerRelease" -> DeviceCall("release", m.code, 0)
      [] OTHER -> DeviceCall("none", 0, 0)

\* UIModel::render_keyboard indexes self.left[left] and self.right[right]:
\* it panics when an index is out of range
render_keyboard_ok(lyr, lay) == lyr[1] < lay.left /\ lyr[2] < lay.right

(***************************************************************************)
(* Layout::from_str: the document is deserialized as it is (no check of    *)
(* the indices of its Layer actions) and the mouse layer is pushed as the  *)
(* last layer of the left side.  A layout is given by the number of layers *)
(* of each side and by its keys.                                           *)
(***************************************************************************)
Layout_from_str(doc) ==
    [left |-> doc.left + 1, right |-> doc.right, keys |-> doc.keys]

NoKey(k, ms) == BasicKey(k, ms, NoAction, NoAction, NoAction, NoAction)

\* the other kinds of KeyDef: a pointer button, the pointer pad, a command
PointerButtonKey(button) == [type |-> "PointerButton", button |-> button]
PointerKey == [type |-> "Pointer"]
CommandKey == [type |-> "Command"]

\* the layout documents of the model
Documents ==
    { [left |-> 1, right |-> 1,
       keys |-> << BasicKey(KEY_A, <<>>, ActModified("Shift"), ActLayer("Left", 1),
                            ActKey(KEY_S), NoAction),
                   NoKey(KEY_LEFTSHIFT, <<>>) >>],
      [left |-> 1, right |-> 1,
       keys |-> << BasicKey(KEY_S, <<"Shift">>, ActLayer("Right", 2), ActSelect,
                            ActDelete, NoAction),
                   NoKey(KEY_LEFTCTRL, <<>>) >>] }

\* the cumulative offsets (x, y) a move sample may carry
Samples == { <<3, 0>>, <<10, 0>>, <<0, -10>>, <<10, 10>> }

\* the steps by which time advances, in ms
Durations == { HOLD_TERM \div 2, HOLD_TERM }

(***************************************************************************)
(* The recognizer state of a key (KeyState, ui/key.rs).                    *)
(***************************************************************************)
Idle == [s |-> "Idle", x |-> 0, y |-> 0]
Unclaimed == [s |-> "Unclaimed", x |-> 0, y |-> 0]
Pressed == [s |-> "Pressed", x |-> 0, y |-> 0]
Swiping(x, y) == [s |-> "Swiping", x |-> x, y |-> y]

\* as swipe_distance_reached, were both offsets required to reach the
\* distance
swipe_distance_reached_on_both(x, y) ==
    Abs(x) >= SWIPE_MIN_DISTANCE /\ Abs(y) >= SWIPE_MIN_DISTANCE

\* x.abs() >= SWIPE_MIN_DISTANCE || y.abs() >= SWIPE_MIN_DISTANCE
swipe_distance_reached(x, y) ==
    Abs(x) >= SWIPE_MIN_DISTANCE \/ Abs(y) >= SWIPE_MIN_DISTANCE

\* as can_press, were every state of an interaction in progress claimable
can_press_unless_idle(st) == st.s # "Idle"

\* as can_press, were a pressed key claimed again
can_press_also_pressed(st) == st.s \in {"Unclaimed", "Pressed"}

can_press(st) == st.s = "Unclaimed"

\* as can_swipe, were a pressed key still open to a swipe
can_swipe_also_pressed(st) == st.s \in {"Unclaimed", "Pressed"}

can_swipe(st) == st.s = "Unclaimed"

\* Some((x, y)) in state Swiping, None otherwise
has_swipe_offset(st) == st.s = "Swiping"

(***************************************************************************)
(* State.                                                                  *)
(***************************************************************************)
VARIABLES
    layout,         \* Keyboard.layout, loaded once at startup
    key_state,      \* per key: the recognizer state (state in ui/key.rs)
    last_position,  \* per key: the last recorded offset (last_position)
    timers,         \* per key: the hold timers scheduled and not fired yet
    swipe_state,    \* per key: the swipe direction of the dispatcher (state)
    toggle,         \* per key: is_active() of the ToggleButton of the key
    inbox,          \* messages sent to the UI component and not handled yet
    layer,          \* Keyboard.layer
    modifiers,      \* Keyboard.modifiers
    locks,          \* Keyboard.locks
    running,        \* FALSE once the process has panicked
    active,         \* per key: a drag has begun and has not ended
    elapsed,        \* per key: ms since the begin of the interaction
    moves,          \* per key: move samples of the interaction
    events,         \* per key: signals emitted in the interaction
    sent,           \* per key: messages sent before the release
    rel,            \* per key: what the released handler ran and sent
    claim,          \* per key: what claimed the interaction, and when
    probe           \* the operations applied to a drawn Keyboard state

vars ==
    << layout, key_state, last_position, timers, swipe_state, toggle, inbox,
       layer, modifiers, locks, running, active, elapsed, moves, events, sent,
       rel, claim, probe >>

Keys == DOMAIN layout.keys

Ev(sig, dir, dx, dy, x, y) ==
    [sig |-> sig, dir |-> dir, dx |-> dx, dy |-> dy, x |-> x, y |-> y]
TapPressedEv == Ev("tap-pressed", "None", 0, 0, 0, 0)
ReleasedEv == Ev("released", "None", 0, 0, 0, 0)
SwipeEv(sig, dir) == Ev(sig, dir, 0, 0, 0, 0)

NoRel == [ran |-> "none", msgs |-> <<>>]
NoClaim == [by |-> "none", at |-> 0, stale |-> FALSE]
NoProbe == [pc |-> "off", code |-> 0, prior |-> 0]

Min(a, b) == IF a < b THEN a ELSE b

RECURSIVE SumOver(_, _)
SumOver(f, S) ==
    IF S = {} THEN 0
    ELSE LET j == CHOOSE j \in S : TRUE IN f[j] + SumOver(f, S \ {j})

\* what is recorded of the interactions: kept for the interactions in
\* progress, and for the ended ones until the next interaction begins
Fresh(rec, k, init) ==
    [j \in DOMAIN rec |-> IF j = k \/ ~active[j] THEN init ELSE rec[j]]

Init ==
    /\ layout \in { Layout_from_str(doc) : doc \in Documents }
    /\ key_state = [k \in Keys |-> Idle]
    /\ last_position = [k \in Keys |-> <<0, 0>>]
    /\ timers = [k \in Keys |-> <<>>]
    /\ swipe_state = [k \in Keys |-> "None"]
    /\ toggle = [k \in Keys |-> FALSE]
    /\ inbox = <<>>
    /\ layer = <<0, 0>>
    /\ modifiers = 0
    /\ locks = 0
    /\ running = TRUE
    /\ active = [k \in Keys |-> FALSE]
    /\ elapsed = [k \in Keys |-> 0]
    /\ moves = [k \in Keys |-> 0]
    /\ events = [k \in Keys |-> <<>>]
    /\ sent = [k \in Keys |-> <<>>]
    /\ rel = [k \in Keys |-> NoRel]
    /\ claim = [k \in Keys |-> NoClaim]
    /\ probe = NoProbe

\* the signal the increment branch of connect_drag_update emits
IncrementSignal == "swipe-pressed"

\* emit_by_name: the handlers connected to the signal run at once
EmitSwipe(def, sig, dir, st) ==
    IF sig = "swipe-pressed" THEN on_swipe_pressed(def, dir, st)
    ELSE on_swipe_repeated(def, dir, st)

(***************************************************************************)
(* gesture.connect_drag_begin.  GTK begins a drag on a key only when no    *)
(* drag of that key is in progress.                                        *)
(***************************************************************************)
DragBegin(k) ==
    /\ running
    /\ IsKeyButton(layout.keys[k])
    /\ ~active[k]
    /\ SumOver([j \in Keys |-> Len(timers[j])], Keys) < MaxTimers
    /\ Len(inbox) <= MaxInbox
    /\ key_state' = [key_state EXCEPT ![k] = Unclaimed]
    /\ timers' = [timers EXCEPT ![k] =
            Append([i \in 1..Len(@) |-> [@[i] EXCEPT !.stale = TRUE]],
                   [rem |-> HOLD_TERM, stale |-> FALSE])]
    /\ active' = [active EXCEPT ![k] = TRUE]
    /\ elapsed' = [elapsed EXCEPT ![k] = 0]
    /\ moves' = Fresh(moves, k, 0)
    /\ events' = Fresh(events, k, <<>>)
    /\ sent' = Fresh(sent, k, <<>>)
    /\ rel' = Fresh(rel, k, NoRel)
    /\ claim' = Fresh(claim, k, NoClaim)
    /\ UNCHANGED << probe, layout, last_position, swipe_state, toggle, inbox, layer,
                    modifiers, locks, running >>

(***************************************************************************)
(* The callback of glib::timeout_add_once(HOLD_TERM), for the oldest timer *)
(* of the key, once it is due.                                             *)
(***************************************************************************)
HoldTimeout(k) ==
    /\ running
    /\ timers[k] # <<>>
    /\ Head(timers[k]).rem = 0
    /\ Len(inbox) <= MaxInbox
    /\ timers' = [timers EXCEPT ![k] = Tail(@)]
    /\ LET def == layout.keys[k]
           fire == can_press(key_state[k])
           h == IF fire THEN on_tap_pressed(def, swipe_state[k])
                ELSE Handled(swipe_state[k], <<>>, "none")
       IN /\ key_state' = IF fire THEN [key_state EXCEPT ![k] = Pressed] ELSE key_state
          /\ swipe_state' = [swipe_state EXCEPT ![k] = h.state]
          /\ inbox' = inbox \o h.msgs
          /\ sent' = [sent EXCEPT ![k] = @ \o h.msgs]
          /\ events' = IF fire THEN [events EXCEPT ![k] = Append(@, TapPressedEv)]
                       ELSE events
          /\ claim' = IF fire
                      THEN [claim EXCEPT ![k] = [by |-> "hold", at |-> elapsed[k],
                                                 stale |-> Head(timers[k]).stale]]
                      ELSE claim
    /\ UNCHANGED << probe, layout, last_position, toggle, layer, modifiers, locks,
                    running, active, elapsed, moves, rel >>

\* as freemove_delta, were the vertical delta not inverted
freemove_delta_not_inverted(last, x, y) == << x - last[1], y - last[2] >>

\* delta_x and delta_y of the freemove signal: last is the last recorded
\* position
freemove_delta(last, x, y) == << x - last[1], last[2] - y >>

(***************************************************************************)
(* gesture.connect_drag_update with gesture.offset() = Some((x, y)).       *)
(***************************************************************************)
DragUpdate(k, x, y) ==
    /\ running
    /\ active[k]
    /\ SumOver(moves, { j \in Keys : active[j] }) < MaxMoves
    /\ Len(inbox) <= MaxInbox
    /\ LET def == layout.keys[k]
           st == key_state[k]
           delta_x == freemove_delta(last_position[k], x, y)[1]
           delta_y == freemove_delta(last_position[k], x, y)[2]
           fm == on_freemove(def, swipe_state[k])
           claimed == swipe_distance_reached(x, y) /\ can_swipe(st)
           incr == ~claimed /\ has_swipe_offset(st)
                      /\ DistanceAtLeast(st.x, st.y, x, y, SWIPE_MIN_INCREMENT)
           dir == IF claimed THEN direction(x, y)
                  ELSE IF incr THEN direction(x - st.x, y - st.y)
                  ELSE "None"
           sig == IF claimed THEN "swipe-pressed" ELSE IncrementSignal
           emit == (claimed \/ incr) /\ dir # "None"
           sw == IF emit THEN EmitSwipe(def, sig, dir, fm.state)
                 ELSE Handled(fm.state, <<>>, "none")
       IN /\ last_position' = [last_position EXCEPT ![k] = <<x, y>>]
          /\ key_state' = IF claimed \/ incr
                          THEN [key_state EXCEPT ![k] = Swiping(x, y)]
                          ELSE key_state
          /\ swipe_state' = [swipe_state EXCEPT ![k] = sw.state]
          /\ inbox' = inbox \o fm.msgs \o sw.msgs
          /\ sent' = [sent EXCEPT ![k] = @ \o fm.msgs \o sw.msgs]
          /\ events' = [events EXCEPT ![k] =
                  Append(@, Ev("freemove", "None", delta_x, delta_y, x, y))
                      \o (IF emit THEN <<SwipeEv(sig, dir)>> ELSE <<>>)]
          /\ claim' = IF claimed
                      THEN [claim EXCEPT ![k] = [by |-> "swipe", at |-> elapsed[k],
                                                 stale |-> FALSE]]
                      ELSE claim
    /\ moves' = [moves EXCEPT ![k] = @ + 1]
    /\ UNCHANGED << probe, layout, timers, toggle, layer, modifiers, locks, running,
                    active, elapsed, rel >>

\* as DragEnd, without the reset of the last position
DragEnd_keeps_position(k) ==
    /\ running
    /\ active[k]
    /\ Len(inbox) <= MaxInbox
    /\ LET def == layout.keys[k]
           tap == can_press(key_state[k])
           t == IF tap THEN on_tap_pressed(def, swipe_state[k])
                ELSE Handled(swipe_state[k], <<>>, "none")
           r == on_released(def, t.state)
       IN /\ key_state' = [key_state EXCEPT ![k] = Idle]
          /\ swipe_state' = [swipe_state EXCEPT ![k] = r.state]
          /\ inbox' = inbox \o t.msgs \o r.msgs
          /\ sent' = [sent EXCEPT ![k] = @ \o t.msgs]
          /\ rel' = [rel EXCEPT ![k] = [ran |-> r.ran, msgs |-> r.msgs]]
          /\ events' = [events EXCEPT ![k] =
                  @ \o (IF tap THEN <<TapPressedEv>> ELSE <<>>) \o <<ReleasedEv>>]
          /\ claim' = IF tap
                      THEN [claim EXCEPT ![k] = [by |-> "tap", at |-> elapsed[k],
                                                 stale |-> FALSE]]
                      ELSE claim
    /\ active' = [active EXCEPT ![k] = FALSE]
    /\ timers' = [timers EXCEPT ![k] =
            [i \in 1..Len(@) |-> [@[i] EXCEPT !.stale = TRUE]]]
    /\ elapsed' = [elapsed EXCEPT ![k] = 0]
    /\ UNCHANGED << probe, layout, last_position, toggle, layer, modifiers, locks, running, moves >>

(***************************************************************************)
(* gesture.connect_drag_end.                                               *)
(***************************************************************************)
DragEnd(k) ==
    /\ running
    /\ active[k]
    /\ Len(inbox) <= MaxInbox
    /\ LET def == layout.keys[k]
           tap == can_press(key_state[k])
           t == IF tap THEN on_tap_pressed(def, swipe_state[k])
                ELSE Handled(swipe_state[k], <<>>, "none")
           r == on_released(def, t.state)
       IN /\ key_state' = [key_state EXCEPT ![k] = Idle]
          /\ last_position' = [last_position EXCEPT ![k] = <<0, 0>>]
          /\ swipe_state' = [swipe_state EXCEPT ![k] = r.state]
          /\ inbox' = inbox \o t.msgs \o r.msgs
          /\ sent' = [sent EXCEPT ![k] = @ \o t.msgs]
          /\ rel' = [rel EXCEPT ![k] = [ran |-> r.ran, msgs |-> r.msgs]]
          /\ events' = [events EXCEPT ![k] =
                  @ \o (IF tap THEN <<TapPressedEv>> ELSE <<>>) \o <<ReleasedEv>>]
          /\ claim' = IF tap
                      THEN [claim EXCEPT ![k] = [by |-> "tap", at |-> elapsed[k],
                                                 stale |-> FALSE]]
                      ELSE claim
    /\ active' = [active EXCEPT ![k] = FALSE]
    /\ timers' = [timers EXCEPT ![k] =
            [i \in 1..Len(@) |-> [@[i] EXCEPT !.stale = TRUE]]]
    /\ elapsed' = [elapsed EXCEPT ![k] = 0]
    /\ UNCHANGED << probe, layout, toggle, layer, modifiers, locks, running, moves >>

\* as on_toggled, were every click forwarded as a press
on_toggled_always_press(def, is_active) ==
    IF KeyType(def.key) = "Mod" THEN <<ModPress(def.key)>> ELSE <<LockPress(def.key)>>

(***************************************************************************)
(* toggle.connect_toggled, for a Basic key of KeyType Mod or Lock: the     *)
(* click has changed is_active().                                          *)
(***************************************************************************)
on_toggled(def, is_active) ==
    IF KeyType(def.key) = "Mod"
    THEN IF is_active THEN <<ModPress(def.key)>> ELSE <<ModRelease(def.key)>>
    ELSE IF is_active THEN <<LockPress(def.key)>> ELSE <<LockRelease(def.key)>>

Toggle(k) ==
    /\ running
    /\ ~IsKeyButton(layout.keys[k])
    /\ Len(inbox) <= MaxInbox
    /\ toggle' = [toggle EXCEPT ![k] = ~@]
    /\ inbox' = inbox \o on_toggled(layout.keys[k], ~toggle[k])
    /\ UNCHANGED << probe, layout, key_state, last_position, timers, swipe_state, layer,
                    modifiers, locks, running, active, elapsed, moves, events,
                    sent, rel, claim >>

(***************************************************************************)
(* Time passes by d ms: no timer is overdue, and a timer that is due fires *)
(* before more time passes.                                                *)
(***************************************************************************)
Advance(d) ==
    /\ running
    /\ \E k \in Keys : timers[k] # <<>>
    /\ Len(inbox) <= MaxInbox
    /\ \A k \in Keys : \A i \in 1..Len(timers[k]) : timers[k][i].rem >= d
    /\ timers' = [k \in Keys |->
            [i \in 1..Len(timers[k]) |-> [timers[k][i] EXCEPT !.rem = @ - d]]]
    /\ elapsed' = [k \in Keys |->
            IF active[k] THEN Min(elapsed[k] + d, HOLD_TERM) ELSE elapsed[k]]
    /\ UNCHANGED << probe, layout, key_state, last_position, swipe_state, toggle, inbox,
                    layer, modifiers, locks, running, active, moves, events, sent,
                    rel, claim >>

(***************************************************************************)
(* UIModel::update on the oldest message, with Keyboard::handle for a      *)
(* KeyMessage.                                                             *)
(***************************************************************************)
Update ==
    /\ running
    /\ inbox # <<>>
    /\ LET m == Head(inbox)
       IN /\ modifiers' = CASE m.t = "ModPress" -> append_mod(modifiers, m.code)
                            [] m.t = "ModRelease" -> remove_mod(modifiers, m.code)
                            [] OTHER -> modifiers
          /\ locks' = CASE m.t = "LockPress" -> append_lock(locks, m.code)
                        [] m.t = "LockRelease" -> remove_lock(locks, m.code)
                        [] OTHER -> locks
          /\ layer' = CASE m.t = "Layer" -> switch_layer(layer, m.side, m.idx)
                        [] m.t = "MouseLayer" -> mouse_layer(layer, m.idx = 1, layout.left)
                        [] OTHER -> layer
          /\ running' = IF m.t = "UpdateLayout"
                        THEN render_keyboard_ok(layer, layout)
                        ELSE TRUE
    /\ inbox' = Tail(inbox)
    /\ UNCHANGED << probe, layout, key_state, last_position, timers, swipe_state, toggle,
                    active, elapsed, moves, events, sent, rel, claim >>

Next ==
    \/ \E k \in Keys : DragBegin(k)
    \/ \E k \in Keys : HoldTimeout(k)
    \/ \E k \in Keys : \E p \in Samples : DragUpdate(k, p[1], p[2])
    \/ \E k \in Keys : DragEnd(k)
    \/ \E k \in Keys : Toggle(k)
    \/ \E d \in Durations : Advance(d)
    \/ Update

Spec == Init /\ [][Next]_vars

(***************************************************************************)
(* The keys that are no Basic key: a layout holds a PointerButton, the     *)
(* Pointer or a Command key next to a Lock or Mod toggle, and the forward  *)
(* of a message to the virtual keyboard, to the pointer device or to a     *)
(* spawned process may fail.                                               *)
(***************************************************************************)
DeviceDocuments ==
    { [left |-> 1, right |-> 1,
       keys |-> << PointerButtonKey(BTN_LEFT), NoKey(KEY_CAPSLOCK, <<>>) >>],
      [left |-> 1, right |-> 1,
       keys |-> << PointerKey, NoKey(KEY_LEFTALT, <<>>) >>],
      [left |-> 1, right |-> 1,
       keys |-> << CommandKey, NoKey(KEY_NUMLOCK, <<>>) >>] }

InitDevices ==
    /\ layout \in { Layout_from_str(doc) : doc \in DeviceDocuments }
    /\ key_state = [k \in Keys |-> Idle]
    /\ last_position = [k \in Keys |-> <<0, 0>>]
    /\ timers = [k \in Keys |-> <<>>]
    /\ swipe_state = [k \in Keys |-> "None"]
    /\ toggle = [k \in Keys |-> FALSE]
    /\ inbox = <<>>
    /\ layer = <<0, 0>>
    /\ modifiers = 0
    /\ locks = 0
    /\ running = TRUE
    /\ active = [k \in Keys |-> FALSE]
    /\ elapsed = [k \in Keys |-> 0]
    /\ moves = [k \in Keys |-> 0]
    /\ events = [k \in Keys |-> <<>>]
    /\ sent = [k \in Keys |-> <<>>]
    /\ rel = [k \in Keys |-> NoRel]
    /\ claim = [k \in Keys |-> NoClaim]
    /\ probe = NoProbe

\* the messages whose handling ends in a call that returns a Result:
\* Pointer::handle, Command::spawn, and the roundtrip of press_key,
\* release_key and update_state
Forwards(m) ==
    \/ m.t \in { "PointerPress", "PointerRelease", "Move", "Command" }
    \/ m.t \in { "ScrollUp", "ScrollDown", "ScrollLeft", "ScrollRight" }
    \/ Keyboard_handle(m).op \notin { "none", "switch_layer", "mouse_layer" }

\* what is recorded of a failed forward
Failed(m) == [pc |-> "failed", code |-> m.code, prior |-> 0, msg |-> m]

(***************************************************************************)
(* UIModel::update on the oldest message when the forward fails: the Err   *)
(* is unwrapped (unwrap, expect), which panics.  Keyboard has changed its  *)
(* bitmask before it forwards.                                             *)
(***************************************************************************)
UpdateFails ==
    /\ running
    /\ inbox # <<>>
    /\ Forwards(Head(inbox))
    /\ LET m == Head(inbox)
       IN /\ modifiers' = CASE m.t = "ModPress" -> append_mod(modifiers, m.code)
                            [] m.t = "ModRelease" -> remove_mod(modifiers, m.code)
                            [] OTHER -> modifiers
          /\ locks' = CASE m.t = "LockPress" -> append_lock(locks, m.code)
                        [] m.t = "LockRelease" -> remove_lock(locks, m.code)
                        [] OTHER -> locks
          /\ probe' = Failed(m)
    /\ running' = FALSE
    /\ inbox' = Tail(inbox)
    /\ UNCHANGED << layout, key_state, last_position, timers, swipe_state, toggle,
                    layer, active, elapsed, moves, events, sent, rel, claim >>

NextDevices ==
    \/ \E k \in Keys : DragBegin(k)
    \/ \E k \in Keys : HoldTimeout(k)
    \/ \E k \in Keys : \E p \in Samples : DragUpdate(k, p[1], p[2])
    \/ \E k \in Keys : DragEnd(k)
    \/ \E k \in Keys : Toggle(k)
    \/ \E d \in Durations : Advance(d)
    \/ Update
    \/ UpdateFails

SpecDevices == InitDevices /\ [][NextDevices]_vars

(***************************************************************************)
(* Two keys touched at once: every KeyButton has its own gesture, so the   *)
(* interactions of two keys of a layout interleave.  A key with a Layer    *)
(* swipe is next to the Pointer key or to another key with a Layer swipe   *)
(* of the same side.                                                       *)
(***************************************************************************)
TouchDocuments ==
    { [left |-> 2, right |-> 1,
       keys |-> << BasicKey(KEY_A, <<>>, ActLayer("Left", 1), NoAction, NoAction,
                            NoAction),
                   PointerKey >>],
      [left |-> 3, right |-> 1,
       keys |-> << BasicKey(KEY_A, <<>>, ActLayer("Left", 1), NoAction, NoAction,
                            NoAction),
                   BasicKey(KEY_S, <<>>, ActLayer("Left", 2), NoAction, NoAction,
                            NoAction) >>] }

\* the offset of the one move sample of a touch: a swipe up
TouchSamples == { <<0, -10>> }

InitTouch ==
    /\ layout \in { Layout_from_str(doc) : doc \in TouchDocuments }
    /\ key_state = [k \in Keys |-> Idle]
    /\ last_position = [k \in Keys |-> <<0, 0>>]
    /\ timers = [k \in Keys |-> <<>>]
    /\ swipe_state = [k \in Keys |-> "None"]
    /\ toggle = [k \in Keys |-> FALSE]
    /\ inbox = <<>>
    /\ layer = <<0, 0>>
    /\ modifiers = 0
    /\ locks = 0
    /\ running = TRUE
    /\ active = [k \in Keys |-> FALSE]
    /\ elapsed = [k \in Keys |-> 0]
    /\ moves = [k \in Keys |-> 0]
    /\ events = [k \in Keys |-> <<>>]
    /\ sent = [k \in Keys |-> <<>>]
    /\ rel = [k \in Keys |-> NoRel]
    /\ claim = [k \in Keys |-> NoClaim]
    /\ probe = NoProbe

NextTouch ==
    \/ \E k \in Keys : DragBegin(k)
    \/ \E k \in Keys : HoldTimeout(k)
    \/ \E k \in Keys : \E p \in TouchSamples : DragUpdate(k, p[1], p[2])
    \/ \E k \in Keys : DragEnd(k)
    \/ \E d \in Durations : Advance(d)
    \/ Update

SpecTouch == InitTouch /\ [][NextTouch]_vars

(***************************************************************************)
(* The modifier operations of Keyboard on drawn inputs: a bitmask and a    *)
(* scan code are drawn, then KeyMessage::ModPress and KeyMessage::         *)
(* ModRelease of that scan code are handled.                               *)
(***************************************************************************)
\* the largest bitmask drawn
MaxMask == 15

ProbeCodes ==
    { KEY_LEFTCTRL, KEY_RIGHTCTRL, KEY_LEFTMETA, KEY_RIGHTMETA, KEY_LEFTSHIFT,
      KEY_RIGHTSHIFT, KEY_LEFTALT, KEY_RIGHTALT, KEY_A, KEY_CAPSLOCK }

InitMod ==
    /\ layout = Layout_from_str([left |-> 1, right |-> 1, keys |-> <<>>])
    /\ key_state = <<>>
    /\ last_position = <<>>
    /\ timers = <<>>
    /\ swipe_state = <<>>
    /\ toggle = <<>>
    /\ inbox = <<>>
    /\ layer = <<0, 0>>
    /\ modifiers \in 0..MaxMask
    /\ locks = 0
    /\ running = TRUE
    /\ active = <<>>
    /\ elapsed = <<>>
    /\ moves = <<>>
    /\ events = <<>>
    /\ sent = <<>>
    /\ rel = <<>>
    /\ claim = <<>>
    /\ \E c \in ProbeCodes : probe = [pc |-> "start", code |-> c, prior |-> modifiers]

ProbeFrame ==
    UNCHANGED << layout, key_state, last_position, timers, swipe_state, toggle,
                 inbox, layer, locks, running, active, elapsed, moves, events,
                 sent, rel, claim >>

\* Keyboard::handle(KeyMessage::ModPress(code))
ProbeModPress ==
    /\ probe.pc = "start"
    /\ modifiers' = append_mod(modifiers, probe.code)
    /\ probe' = [probe EXCEPT !.pc = "added"]
    /\ ProbeFrame

\* Keyboard::handle(KeyMessage::ModRelease(code))
ProbeModRelease ==
    /\ probe.pc \in {"start", "added"}
    /\ modifiers' = remove_mod(modifiers, probe.code)
    /\ probe' = [probe EXCEPT !.pc = IF @ = "added" THEN "added-removed" ELSE "removed"]
    /\ ProbeFrame

NextMod == ProbeModPress \/ ProbeModRelease

SpecMod == InitMod /\ [][NextMod]_vars

(***************************************************************************)
(* Keyboard::handle on drawn KeyMessages, from the state Keyboard::new     *)
(* leaves: probe.trace holds, for every message handled, the bit looked up *)
(* for its scan code, the fields of Keyboard before and after, and the     *)
(* requests forwarded to the virtual keyboard.                             *)
(***************************************************************************)
\* messages handled in one run
MaxOps == 3

\* zwp_virtual_keyboard_v1 requests: keyboard.key(time, code, state) and
\* keyboard.modifiers(depressed, latched, locked, group)
KeyRequest(code, state) == [req |-> "key", time |-> 0, code |-> code, state |-> state]
ModifiersRequest(depressed, latched, locked, group) ==
    [req |-> "modifiers", depressed |-> depressed, latched |-> latched,
     locked |-> locked, group |-> group]

\* press_key and release_key, with bound: session_state.keyboard is Some
press_key(bound, code) == IF bound THEN << KeyRequest(code, "Pressed") >> ELSE <<>>
release_key(bound, code) == IF bound THEN << KeyRequest(code, "Released") >> ELSE <<>>

\* as update_state, were only the modifier bitmask forwarded
update_state_without_locks(bound, mods, lks) ==
    IF bound THEN << ModifiersRequest(mods, 0, 0, 0) >> ELSE <<>>

\* update_state, with the bitmasks as the caller has left them
update_state(bound, mods, lks) ==
    IF bound THEN << ModifiersRequest(mods, 0, lks, 0) >> ELSE <<>>

\* the fields of Keyboard
Fields(mods, lks, lyr) == [modifiers |-> mods, locks |-> lks, layer |-> lyr]

\* the bit that the handling of m looks up for its scan code
LookedUp(m) ==
    CASE m.t \in {"ModPress", "ModRelease"} -> map_mod_key(m.code)
      [] m.t \in {"LockPress", "LockRelease"} -> map_lock_key(m.code)
      [] OTHER -> 0

\* the scan codes drawn: the Mod keys, the Lock keys and a Normal key
KeyboardCodes ==
    { KEY_LEFTCTRL, KEY_RIGHTCTRL, KEY_LEFTMETA, KEY_RIGHTMETA, KEY_LEFTSHIFT,
      KEY_RIGHTSHIFT, KEY_LEFTALT, KEY_RIGHTALT, KEY_CAPSLOCK, KEY_NUMLOCK,
      KEY_SCROLLLOCK, KEY_A }

\* the KeyMessages drawn
KeyboardMessages ==
    { ModPress(c) : c \in { c \in KeyboardCodes : KeyType(c) # "Lock" } }
        \cup { ModRelease(c) : c \in { c \in KeyboardCodes : KeyType(c) # "Lock" } }
        \cup { LockPress(c) : c \in { c \in KeyboardCodes : KeyType(c) # "Mod" } }
        \cup { LockRelease(c) : c \in { c \in KeyboardCodes : KeyType(c) # "Mod" } }
        \cup { ButtonPress(KEY_A), ButtonRelease(KEY_A) }
        \cup { LayerMsg("Left", 1), LayerMsg("Right", 1) }
        \cup { MouseLayer(TRUE), MouseLayer(FALSE) }

InitKeyboard ==
    /\ layout = Layout_from_str([left |-> 2, right |-> 2, keys |-> <<>>])
    /\ key_state = <<>>
    /\ last_position = <<>>
    /\ timers = <<>>
    /\ swipe_state = <<>>
    /\ toggle = <<>>
    /\ inbox = <<>>
    /\ layer = <<0, 0>>
    /\ modifiers = 0
    /\ locks = 0
    /\ running = TRUE
    /\ active = <<>>
    /\ elapsed = <<>>
    /\ moves = <<>>
    /\ events = <<>>
    /\ sent = <<>>
    /\ rel = <<>>
    /\ claim = <<>>
    /\ probe = [pc |-> "keyboard", code |-> 0, prior |-> 0, bound |-> TRUE,
                trace |-> <<>>]

\* Keyboard::handle(m)
KeyboardHandle(m) ==
    /\ running
    /\ probe.pc = "keyboard"
    /\ Len(probe.trace) < MaxOps
    /\ modifiers' = CASE m.t = "ModPress" -> append_mod(modifiers, m.code)
                      [] m.t = "ModRelease" -> remove_mod(modifiers, m.code)
                      [] OTHER -> modifiers
    /\ locks' = CASE m.t = "LockPress" -> append_lock(locks, m.code)
                  [] m.t = "LockRelease" -> remove_lock(locks, m.code)
                  [] OTHER -> locks
    /\ layer' = CASE m.t = "Layer" -> switch_layer(layer, m.side, m.idx)
                  [] m.t = "MouseLayer" -> mouse_layer(layer, m.idx = 1, layout.left)
                  [] OTHER -> layer
    /\ probe' = [probe EXCEPT !.trace = Append(@,
            [m |-> m,
             bit |-> LookedUp(m),
             before |-> Fields(modifiers, locks, layer),
             after |-> Fields(modifiers', locks', layer'),
             fwd |-> CASE m.t = "ButtonPress" -> press_key(probe.bound, m.code)
                       [] m.t = "ButtonRelease" -> release_key(probe.bound, m.code)
                       [] m.t \in {"ModPress", "ModRelease", "LockPress", "LockRelease"}
                            -> update_state(probe.bound, modifiers', locks')
                       [] OTHER -> <<>>])]
    /\ UNCHANGED << layout, key_state, last_position, timers, swipe_state, toggle,
                    inbox, running, active, elapsed, moves, events, sent, rel, claim >>

NextKeyboard == \E m \in KeyboardMessages : KeyboardHandle(m)

SpecKeyboard == InitKeyboard /\ [][NextKeyboard]_vars

(***************************************************************************)
(* direction on drawn offsets: an offset (x, y) is drawn, then direction   *)
(* resolves it.                                                            *)
(***************************************************************************)
\* the largest offset drawn, on each axis
MaxOffset == 10

Offsets == (0 - MaxOffset)..MaxOffset

Offset(pc, x, y, dir) ==
    [pc |-> pc, code |-> 0, prior |-> 0, x |-> x, y |-> y, dir |-> dir]

InitDirection ==
    /\ layout = Layout_from_str([left |-> 1, right |-> 1, keys |-> <<>>])
    /\ key_state = <<>>
    /\ last_position = <<>>
    /\ timers = <<>>
    /\ swipe_state = <<>>
    /\ toggle = <<>>
    /\ inbox = <<>>
    /\ layer = <<0, 0>>
    /\ modifiers = 0
    /\ locks = 0
    /\ running = TRUE
    /\ active = <<>>
    /\ elapsed = <<>>
    /\ moves = <<>>
    /\ events = <<>>
    /\ sent = <<>>
    /\ rel = <<>>
    /\ claim = <<>>
    /\ \E x, y \in Offsets : probe = Offset("offset", x, y, "None")

\* direction(x, y)
ProbeDirection ==
    /\ probe.pc = "offset"
    /\ probe' = Offset("resolved", probe.x, probe.y, direction(probe.x, probe.y))
    /\ UNCHANGED << layout, key_state, last_position, timers, swipe_state, toggle,
                    inbox, layer, modifiers, locks, running, active, elapsed, moves,
                    events, sent, rel, claim >>

NextDirection == ProbeDirection

SpecDirection == InitDirection /\ [][NextDirection]_vars

(***************************************************************************)
(* The dispatcher of one Normal Basic key on drawn signals: the handlers   *)
(* that BasicKey::render connects run on the signals of an interaction,    *)
(* tap-pressed or swipe events and then released, and UIModel::update      *)
(* handles what they send.  probe holds the last signal and what its       *)
(* handler sent.                                                           *)
(***************************************************************************)
\* swipe events delivered in one interaction
MaxSignals == 2

\* layouts of one key that carry every SwipeAction
DispatchDocuments ==
    { [left |-> 1, right |-> 1,
       keys |-> << BasicKey(KEY_A, <<>>, ActKey(KEY_S),
                            ActModKey(KEY_D, <<"Ctrl", "Alt">>), ActArrow,
                            ActScroll) >>],
      [left |-> 1, right |-> 1,
       keys |-> << BasicKey(KEY_A, <<"Shift">>, ActSelect, ActDelete,
                            ActLayer("Left", 1), ActModified("Alt")) >>],
      [left |-> 1, right |-> 1,
       keys |-> << BasicKey(KEY_A, <<>>, ActCommand, ActHideKeyboard, NoAction,
                            ActDelete) >>],
      [left |-> 1, right |-> 1,
       keys |-> << BasicKey(KEY_A, <<>>, ActArrow, ActArrow, ActArrow, ActArrow) >>],
      [left |-> 1, right |-> 1,
       keys |-> << BasicKey(KEY_A, <<>>, ActScroll, ActScroll, ActScroll,
                            ActScroll) >>] }

Delivered(pc, sig, dir, msgs) == [pc |-> pc, sig |-> sig, dir |-> dir, msgs |-> msgs]

InitDispatch ==
    /\ layout \in { Layout_from_str(doc) : doc \in DispatchDocuments }
    /\ key_state = [k \in Keys |-> Idle]
    /\ last_position = [k \in Keys |-> <<0, 0>>]
    /\ timers = [k \in Keys |-> <<>>]
    /\ swipe_state = [k \in Keys |-> "None"]
    /\ toggle = [k \in Keys |-> FALSE]
    /\ inbox = <<>>
    /\ layer = <<0, 0>>
    /\ modifiers = 0
    /\ locks = 0
    /\ running = TRUE
    /\ active = [k \in Keys |-> FALSE]
    /\ elapsed = [k \in Keys |-> 0]
    /\ moves = [k \in Keys |-> 0]
    /\ events = [k \in Keys |-> <<>>]
    /\ sent = [k \in Keys |-> <<>>]
    /\ rel = [k \in Keys |-> NoRel]
    /\ claim = [k \in Keys |-> NoClaim]
    /\ probe = Delivered("idle", "none", "None", <<>>)

\* a drag begins on the key: no signal yet
DispatchBegin(k) ==
    /\ running
    /\ probe.pc = "idle"
    /\ Len(inbox) <= MaxInbox
    /\ active' = [active EXCEPT ![k] = TRUE]
    /\ events' = [events EXCEPT ![k] = <<>>]
    /\ sent' = [sent EXCEPT ![k] = <<>>]
    /\ rel' = [rel EXCEPT ![k] = NoRel]
    /\ probe' = Delivered("begun", "none", "None", <<>>)
    /\ UNCHANGED << layout, key_state, last_position, timers, swipe_state, toggle,
                    inbox, layer, modifiers, locks, running, elapsed, moves,
                    claim >>

\* tap-pressed, as the first signal of the interaction
DispatchTapPressed(k) ==
    /\ running
    /\ probe.pc = "begun"
    /\ Len(inbox) <= MaxInbox
    /\ LET h == on_tap_pressed(layout.keys[k], swipe_state[k])
       IN /\ swipe_state' = [swipe_state EXCEPT ![k] = h.state]
          /\ inbox' = inbox \o h.msgs
          /\ sent' = [sent EXCEPT ![k] = @ \o h.msgs]
          /\ events' = [events EXCEPT ![k] = Append(@, TapPressedEv)]
          /\ probe' = Delivered("tapped", "tap-pressed", "None", h.msgs)
    /\ UNCHANGED << layout, key_state, last_position, timers, toggle, layer,
                    modifiers, locks, running, active, elapsed, moves, rel,
                    claim >>

\* swipe-pressed(dir), in an interaction without tap-pressed
DispatchSwipePressed(k, dir) ==
    /\ running
    /\ probe.pc \in {"begun", "swiped"}
    /\ Len(events[k]) < MaxSignals
    /\ Len(inbox) <= MaxInbox
    /\ LET h == on_swipe_pressed(layout.keys[k], dir, swipe_state[k])
       IN /\ swipe_state' = [swipe_state EXCEPT ![k] = h.state]
          /\ inbox' = inbox \o h.msgs
          /\ sent' = [sent EXCEPT ![k] = @ \o h.msgs]
          /\ events' = [events EXCEPT ![k] = Append(@, SwipeEv("swipe-pressed", dir))]
          /\ probe' = Delivered("swiped", "swipe-pressed", dir, h.msgs)
    /\ UNCHANGED << layout, key_state, last_position, timers, toggle, layer,
                    modifiers, locks, running, active, elapsed, moves, rel,
                    claim >>

\* swipe-repeated(dir), in an interaction without tap-pressed
DispatchSwipeRepeated(k, dir) ==
    /\ running
    /\ probe.pc \in {"begun", "swiped"}
    /\ Len(events[k]) < MaxSignals
    /\ Len(inbox) <= MaxInbox
    /\ LET h == on_swipe_repeated(layout.keys[k], dir, swipe_state[k])
       IN /\ swipe_state' = [swipe_state EXCEPT ![k] = h.state]
          /\ inbox' = inbox \o h.msgs
          /\ sent' = [sent EXCEPT ![k] = @ \o h.msgs]
          /\ events' = [events EXCEPT ![k] = Append(@, SwipeEv("swipe-repeated", dir))]
          /\ probe' = Delivered("swiped", "swipe-repeated", dir, h.msgs)
    /\ UNCHANGED << layout, key_state, last_position, timers, toggle, layer,
                    modifiers, locks, running, active, elapsed, moves, rel,
                    claim >>

\* released, the last signal of the interaction
DispatchReleased(k) ==
    /\ running
    /\ probe.pc \in {"begun", "tapped", "swiped"}
    /\ Len(inbox) <= MaxInbox
    /\ LET h == on_released(layout.keys[k], swipe_state[k])
       IN /\ swipe_state' = [swipe_state EXCEPT ![k] = h.state]
          /\ inbox' = inbox \o h.msgs
          /\ rel' = [rel EXCEPT ![k] = [ran |-> h.ran, msgs |-> h.msgs]]
          /\ events' = [events EXCEPT ![k] = Append(@, ReleasedEv)]
          /\ probe' = Delivered("idle", "released", "None", h.msgs)
    /\ active' = [active EXCEPT ![k] = FALSE]
    /\ UNCHANGED << layout, key_state, last_position, timers, toggle, layer,
                    modifiers, locks, running, elapsed, moves, sent, claim >>

NextDispatch ==
    \/ \E k \in Keys : DispatchBegin(k)
    \/ \E k \in Keys : DispatchTapPressed(k)
    \/ \E k \in Keys : \E dir \in Directions : DispatchSwipePressed(k, dir)
    \/ \E k \in Keys : \E dir \in Directions : DispatchSwipeRepeated(k, dir)
    \/ \E k \in Keys : DispatchReleased(k)
    \/ Update

SpecDispatch == InitDispatch /\ [][NextDispatch]_vars

(***************************************************************************)
(* Properties.                                                             *)
(***************************************************************************)
Range(q) == { q[i] : i \in DOMAIN q }

\* the keys whose widget is a KeyButton, and the Normal Basic keys
Buttons == { k \in Keys : IsKeyButton(layout.keys[k]) }
NormalKeys == { k \in Buttons : layout.keys[k].type = "Basic" }

SwipeSignals == {"swipe-pressed", "swipe-repeated"}

HasSig(k, sig) == \E i \in DOMAIN events[k] : events[k][i].sig = sig
HasSwipeSig(k) == \E i \in DOMAIN events[k] : events[k][i].sig \in SwipeSignals

\* the interaction of k has ended and no interaction has begun since
Ended(k) == ~active[k] /\ rel[k].ran # "none"

\* the swipe events of the interaction of k, and those among them whose
\* direction has an action configured on the key
IsSwipeEv(e) == e.sig \in SwipeSignals
SwipeEvents(k) == SelectSeq(events[k], IsSwipeEv)
DispatchedEvents(k) ==
    SelectSeq(events[k],
              LAMBDA e : IsSwipeEv(e) /\ dir_action(layout.keys[k], e.dir).a # "None")

\* bit is set in mask (bit a power of two, or 0 for no bit)
HasBit(mask, bit) == bit # 0 /\ (mask \div bit) % 2 = 1

LayerOf(side) == IF side = "Left" THEN layer[1] ELSE layer[2]

\* C1: an interaction with zero move samples emits exactly one tap-pressed
\* and then exactly one released, and no swipe event, whether the hold timer
\* claimed it or the end did.
C1_ZeroMoveTapThenRelease ==
    \A k \in Buttons :
        moves[k] = 0 =>
            IF active[k]
            THEN /\ events[k] \in { <<>>, <<TapPressedEv>> }
                 /\ (claim[k].by = "hold" => events[k] = <<TapPressedEv>>)
            ELSE events[k] \in { <<>>, <<TapPressedEv, ReleasedEv>> }

\* an interaction without move samples that the hold timer claimed has ended
C1_Witness ==
    \E k \in Buttons :
        /\ ~active[k]
        /\ moves[k] = 0
        /\ claim[k].by = "hold"
        /\ events[k] = <<TapPressedEv, ReleasedEv>>

\* C2: the hold timer of an interaction has no effect on a later
\* interaction of the key: an interaction is claimed as a hold only by its
\* own timer, HOLD_TERM after its own begin.
C2_HoldOnlyByOwnTimer ==
    \A k \in Buttons :
        claim[k].by = "hold" => ~claim[k].stale /\ claim[k].at = HOLD_TERM

\* C3: in one interaction tap-pressed and the swipe events exclude each
\* other: none of the swipe events once Pressed, no tap-pressed once Swiping.
C3_TapSwipeExclusive ==
    \A k \in Buttons :
        /\ ~(HasSig(k, "tap-pressed") /\ HasSwipeSig(k))
        /\ (key_state[k].s = "Pressed" => ~HasSwipeSig(k))
        /\ (key_state[k].s = "Swiping" => ~HasSig(k, "tap-pressed"))

\* a pressed key whose pointer has moved past the swipe distance
C3_Witness ==
    \E k \in Buttons :
        /\ key_state[k].s = "Pressed"
        /\ HasSig(k, "tap-pressed")
        /\ Abs(last_position[k][1]) >= SWIPE_MIN_DISTANCE

\* C4: when the recognizer claimed the interaction as a swipe, the release
\* sends no release of the primary key and removes no co-modifier; a swipe
\* with no action for its direction (or with no direction) sends nothing at
\* all, at swipe time and at release.
C4_SwipeReleaseForwardsNoKeyRelease ==
    \A k \in NormalKeys :
        (claim[k].by = "swipe" /\ Ended(k)) =>
            /\ \A i \in DOMAIN rel[k].msgs :
                   /\ rel[k].msgs[i] # ButtonRelease(layout.keys[k].key)
                   /\ rel[k].msgs[i].t # "ModRelease"
            /\ (DispatchedEvents(k) = <<>> => sent[k] = <<>> /\ rel[k].msgs = <<>>)

\* C5: at each released event of a Normal Basic key exactly one release
\* branch runs: the swipe branch, with the release effect of the action of
\* the recorded direction, when a swipe action was dispatched in the
\* interaction, and the plain branch (release of the key, then removal of
\* each co-modifier) otherwise.
C5_OneReleaseBranch ==
    \A k \in NormalKeys :
        Ended(k) =>
            LET def == layout.keys[k]
                d == DispatchedEvents(k)
            IN /\ rel[k].ran \in {"swipe", "plain"}
               /\ (rel[k].ran = "swipe" <=> d # <<>>)
               /\ (rel[k].ran = "swipe" =>
                      rel[k].msgs =
                          handle_swipe_action_release(
                              def, dir_action(def, d[Len(d)].dir), d[Len(d)].dir))
               /\ (rel[k].ran = "plain" =>
                      /\ Len(rel[k].msgs) = 1 + Len(def.modifiers)
                      /\ rel[k].msgs[1] = ButtonRelease(def.key)
                      /\ \A i \in DOMAIN def.modifiers :
                             rel[k].msgs[i + 1] = ModRelease(Modifier_code(def.modifiers[i])))

\* a release that ran the swipe branch after a swipe event without action
\* and one with an action
C5_Witness ==
    \E k \in NormalKeys :
        /\ Ended(k)
        /\ rel[k].ran = "swipe"
        /\ Len(DispatchedEvents(k)) < Len(SwipeEvents(k))

\* C6: for every scan code and every prior bitmask, also with the
\* bit of the scan code already set, add_modifier then remove_modifier gives
\* the prior bitmask back; remove_modifier of a clear bit changes nothing.
C6_AddRemoveRestoresPrior ==
    /\ (probe.pc = "added-removed" => modifiers = probe.prior)
    /\ (probe.pc = "removed" /\ ~HasBit(probe.prior, map_mod_key(probe.code))
            => modifiers = probe.prior)

\* m is held: its toggle key is active, or a Normal key with co-modifier m
\* is between its tap-pressed and its released
HeldModifier(m) ==
    \/ \E k \in Keys \ Buttons :
          layout.keys[k].key = Modifier_code(m) /\ toggle[k]
    \/ \E k \in NormalKeys :
          /\ m \in Range(layout.keys[k].modifiers)
          /\ active[k]
          /\ HasSig(k, "tap-pressed")

\* C7: the bit of a modifier is set while the modifier is held (once the
\* messages sent so far are handled), whatever other keys did with the same
\* modifier meanwhile.
C7_HeldModifierBitSet ==
    (running /\ inbox = <<>>) =>
        \A m \in Modifiers :
            HeldModifier(m) => HasBit(modifiers, map_mod_key(Modifier_code(m)))

\* the interaction of k has exactly one swipe event, which dispatched a
\* Layer action
OneLayerSwipe(k) ==
    /\ Len(SwipeEvents(k)) = 1
    /\ dir_action(layout.keys[k], SwipeEvents(k)[1].dir).a = "Layer"

LayerSwipeAction(k) == dir_action(layout.keys[k], SwipeEvents(k)[1].dir)

C8_State ==
    \A k \in NormalKeys :
        OneLayerSwipe(k) =>
            LET a == LayerSwipeAction(k)
            IN /\ sent[k] = <<LayerMsg(a.side, a.idx), UpdateLayout>>
               /\ (active[k] /\ inbox = <<>> /\ running => LayerOf(a.side) = a.idx)
               /\ (Ended(k) => rel[k].msgs = <<LayerMsg(a.side, 0), UpdateLayout>>)
               /\ (Ended(k) /\ inbox = <<>> /\ running /\ (\A j \in Keys : ~active[j])
                      => LayerOf(a.side) = 0)

C8_Step ==
    (Len(inbox') < Len(inbox) /\ Head(inbox).t = "Layer") =>
        /\ Head(inbox).side = "Left" => layer' = <<Head(inbox).idx, layer[2]>>
        /\ Head(inbox).side = "Right" => layer' = <<layer[1], Head(inbox).idx>>

\* C8: a swipe that dispatches Layer(side, idx) sets the active layer of
\* that side to idx and leaves the other side as it is; with no further
\* swipe event in the interaction, the release sets the active layer of that
\* side back to 0.
C8_LayerHoldRelease == []C8_State /\ [][C8_Step]_vars

\* a Layer swipe was held and released, and the layer is back to 0
C8_Witness ==
    \E k \in NormalKeys :
        /\ OneLayerSwipe(k)
        /\ Ended(k)
        /\ inbox = <<>>
        /\ running
        /\ LayerOf(LayerSwipeAction(k).side) = 0

\* C9: after a swipe that dispatched Layer(side, idx), whatever move samples
\* and swipe events follow in the interaction, the active layer of that side
\* is 0 once the interaction is released.
C9_LayerResetAfterAnyRelease ==
    \A k \in NormalKeys :
        \A i \in DOMAIN events[k] :
            LET a == IF IsSwipeEv(events[k][i])
                     THEN dir_action(layout.keys[k], events[k][i].dir)
                     ELSE NoAction
            IN (/\ a.a = "Layer"
                /\ Ended(k)
                /\ inbox = <<>>
                /\ running
                /\ \A j \in Keys : ~active[j])
               => LayerOf(a.side) = 0

\* C10: the active layer indices are valid indices into the sides of the
\* layout, in every reachable state and for every layout the loader accepts.
C10_LayerIndicesValid == layer[1] < layout.left /\ layer[2] < layout.right

\* the signals of the swipe events of the interaction of k, in order
SwipeSigs(k) == [i \in 1..Len(SwipeEvents(k)) |-> SwipeEvents(k)[i].sig]

\* C11: in one interaction swipe-pressed is emitted at most once, at the
\* claim; a later move sample at least SWIPE_MIN_INCREMENT away from the
\* stored swipe offset emits swipe-repeated, and not swipe-pressed.
C11_IncrementEmitsSwipeRepeated ==
    \A k \in Buttons :
        \A i \in DOMAIN SwipeSigs(k) : i > 1 => SwipeSigs(k)[i] = "swipe-repeated"

\* every move sample of the interaction of k so far has both offsets
\* strictly below SWIPE_MIN_DISTANCE
BelowSwipeDistance(k) ==
    \A i \in DOMAIN events[k] :
        events[k][i].sig = "freemove" =>
            /\ Abs(events[k][i].x) < SWIPE_MIN_DISTANCE
            /\ Abs(events[k][i].y) < SWIPE_MIN_DISTANCE

C12_State ==
    \A k \in Buttons :
        BelowSwipeDistance(k) => ~HasSwipeSig(k) /\ key_state[k].s # "Swiping"

\* a move sample of k, taken with the state Unclaimed
C12_Step ==
    \A k \in Keys :
        (moves'[k] = moves[k] + 1 /\ key_state[k].s = "Unclaimed") =>
            LET x == last_position'[k][1]
                y == last_position'[k][2]
                fm == Ev("freemove", "None", x - last_position[k][1],
                         last_position[k][2] - y, x, y)
            IN /\ (Abs(x) < SWIPE_MIN_DISTANCE /\ Abs(y) < SWIPE_MIN_DISTANCE
                      => /\ key_state'[k].s = "Unclaimed"
                         /\ events'[k] = Append(events[k], fm))
               /\ (~(Abs(x) < SWIPE_MIN_DISTANCE /\ Abs(y) < SWIPE_MIN_DISTANCE)
                      => key_state'[k] = [s |-> "Swiping", x |-> x, y |-> y])
               /\ (x = 10 /\ y = 0
                      => events'[k] = events[k]
                             \o <<fm, Ev("swipe-pressed", "Right", 0, 0, 0, 0)>>)

\* C12: move samples whose offsets stay strictly below SWIPE_MIN_DISTANCE
\* emit no swipe-pressed and leave the state Unclaimed; the first sample in
\* state Unclaimed with an offset of at least SWIPE_MIN_DISTANCE moves the
\* state to Swiping, and a sample at (10, 0) emits swipe-pressed(Right).
C12_SwipeDistanceThreshold == []C12_State /\ [][C12_Step]_vars

\* a sample below the distance left the key unclaimed, the next one at
\* (10, 0) claimed the swipe
C12_Witness ==
    \E k \in Buttons :
        /\ key_state[k] = [s |-> "Swiping", x |-> 10, y |-> 0]
        /\ Len(events[k]) = 3
        /\ events[k][1] = Ev("freemove", "None", 3, 0, 3, 0)
        /\ events[k][2] = Ev("freemove", "None", 7, 0, 10, 0)
        /\ events[k][3] = Ev("swipe-pressed", "Right", 0, 0, 0, 0)

\* a hold timer of k fires
C13_Step ==
    \A k \in Keys :
        Len(timers'[k]) < Len(timers[k]) =>
            IF key_state[k].s = "Unclaimed"
            THEN /\ key_state'[k].s = "Pressed"
                 /\ events'[k] = Append(events[k], TapPressedEv)
            ELSE /\ key_state'[k] = key_state[k]
                 /\ events'[k] = events[k]
                 /\ inbox' = inbox

\* C13: a hold timer that fires in state Pressed, Swiping or Idle emits no
\* event and leaves the state as it is; it emits tap-pressed only from
\* Unclaimed, which it turns into Pressed.
C13_TimerClaimsOnlyUnclaimed == [][C13_Step]_vars

\* the timer of an interaction has fired after the interaction was claimed
\* as a swipe, and the key is still swiping
C13_Witness ==
    \E k \in Buttons :
        /\ active[k]
        /\ timers[k] = <<>>
        /\ key_state[k].s = "Swiping"
        /\ ~HasSig(k, "tap-pressed")

\* the released events of the interaction of k
ReleasedCount(k) ==
    Cardinality({ i \in DOMAIN events[k] : events[k][i].sig = "released" })

\* C14: every end, from Unclaimed, Pressed or Swiping, emits released exactly
\* once, as the last event of the interaction, and leaves the recognizer
\* Idle with the last position reset to (0, 0), so that every interaction
\* starts with last position (0, 0).
C14_EndResetsRecognizer ==
    \A k \in Buttons :
        IF active[k]
        THEN /\ ReleasedCount(k) = 0
             /\ (moves[k] = 0 => last_position[k] = <<0, 0>>)
             /\ \A i \in DOMAIN events[k] :
                   (events[k][i].sig = "freemove"
                       /\ \A j \in 1..(i - 1) : events[k][j].sig # "freemove")
                   => /\ events[k][i].dx = events[k][i].x
                      /\ events[k][i].dy = 0 - events[k][i].y
        ELSE /\ key_state[k].s = "Idle"
             /\ last_position[k] = <<0, 0>>
             /\ (events[k] # <<>> =>
                    /\ ReleasedCount(k) = 1
                    /\ events[k][Len(events[k])] = ReleasedEv)

\* an interaction claimed as a swipe has ended away from the origin
C14_Witness ==
    \E k \in Buttons :
        /\ Ended(k)
        /\ claim[k].by = "swipe"
        /\ events[k][Len(events[k])] = ReleasedEv
        /\ events[k][Len(events[k]) - 1].sig \in SwipeSignals
        /\ last_position[k] = <<0, 0>>
        /\ key_state[k].s = "Idle"

\* C15: for a Normal Basic key with co-modifiers m1..mn and scan code k,
\* tap-pressed forwards add_modifier(m1)..add_modifier(mn) and then press(k);
\* a release with no swipe dispatched forwards release(k) and then
\* remove_modifier(m1)..remove_modifier(mn); a key without co-modifiers that
\* is held past HOLD_TERM and released forwards press(k) and release(k) only.
C15_TapAndPlainReleaseOrder ==
    \A k \in NormalKeys :
        LET def == layout.keys[k]
            n == Len(def.modifiers)
        IN /\ HasSig(k, "tap-pressed") =>
                /\ Len(sent[k]) = n + 1
                /\ \A i \in 1..n :
                      sent[k][i] = Msg("ModPress", Modifier_code(def.modifiers[i]), "None", 0)
                /\ sent[k][n + 1] = Msg("ButtonPress", def.key, "None", 0)
           /\ (Ended(k) /\ DispatchedEvents(k) = <<>>) =>
                /\ Len(rel[k].msgs) = n + 1
                /\ rel[k].msgs[1] = Msg("ButtonRelease", def.key, "None", 0)
                /\ \A i \in 1..n :
                      rel[k].msgs[i + 1]
                          = Msg("ModRelease", Modifier_code(def.modifiers[i]), "None", 0)
           /\ (Ended(k) /\ n = 0 /\ claim[k].by = "hold") =>
                sent[k] \o rel[k].msgs
                    = << Msg("ButtonPress", def.key, "None", 0),
                         Msg("ButtonRelease", def.key, "None", 0) >>

\* a key with a co-modifier was held past HOLD_TERM and released
C15_Witness ==
    \E k \in NormalKeys :
        /\ Ended(k)
        /\ Len(layout.keys[k].modifiers) > 0
        /\ claim[k] = [by |-> "hold", at |-> HOLD_TERM, stale |-> FALSE]
        /\ Len(sent[k]) = 2
        /\ Len(rel[k].msgs) = 2

\* k is a Basic key of scan code 30 with up = Modified(Shift), and its
\* interaction is a begin followed by one move sample to (0, -10)
C16_Scenario(k) ==
    /\ layout.keys[k].key = 30
    /\ layout.keys[k].up = ActModified("Shift")
    /\ moves[k] = 1
    /\ events[k] # <<>>
    /\ events[k][1].sig = "freemove"
    /\ events[k][1].x = 0
    /\ events[k][1].y = -10

C16_Events(k) ==
    /\ Len(events[k]) = IF active[k] THEN 2 ELSE 3
    /\ events[k][1] = Ev("freemove", "None", 0, 10, 0, -10)
    /\ events[k][2] = Ev("swipe-pressed", "Up", 0, 0, 0, 0)
    /\ (~active[k] => events[k][3] = ReleasedEv /\ rel[k].msgs = <<>>)

ProbedAction(k) ==
    IF probe.dir \in Directions THEN dir_action(layout.keys[k], probe.dir)
    ELSE NoAction

\* the press-time effect of ModKey(key, mods), as operations of Keyboard
ModKeyOperations(a) ==
    [i \in 1..(2 * Len(a.mods) + 2) |->
        IF i <= Len(a.mods)
        THEN [op |-> "add_modifier", code |-> Modifier_code(a.mods[i])]
        ELSE IF i = Len(a.mods) + 1 THEN [op |-> "press", code |-> a.key]
        ELSE IF i = Len(a.mods) + 2 THEN [op |-> "release", code |-> a.key]
        ELSE [op |-> "remove_modifier",
              code |-> Modifier_code(a.mods[i - Len(a.mods) - 2])]]

\* C17: for ModKey(k, mods) the press-time effect forwards add_modifier for
\* each mod, then press(k), release(k), then remove_modifier for each mod;
\* when press(k) is forwarded the modifier bitmask has the bit of every mod;
\* the release of the interaction forwards nothing.  (In the layouts of the
\* model nothing but the ModKey action presses its key.)
C17_ModKeyWrapsKeyInModifiers ==
    \A k \in NormalKeys :
        /\ (probe.sig = "swipe-pressed" /\ ProbedAction(k).a = "ModKey") =>
                Operations(probe.msgs) = ModKeyOperations(ProbedAction(k))
        /\ \A dir \in Directions :
              LET a == dir_action(layout.keys[k], dir)
              IN (/\ a.a = "ModKey"
                  /\ inbox # <<>>
                  /\ Head(inbox) = Msg("ButtonPress", a.key, "None", 0))
                 => \A i \in DOMAIN a.mods :
                        HasBit(modifiers, map_mod_key(Modifier_code(a.mods[i])))
        /\ (/\ Ended(k)
            /\ DispatchedEvents(k) # <<>>
            /\ dir_action(layout.keys[k],
                          DispatchedEvents(k)[Len(DispatchedEvents(k))].dir).a = "ModKey")
           => rel[k].msgs = <<>>

\* the press of the key of a ModKey action with two modifiers is about to be
\* forwarded
C17_Witness ==
    \E k \in NormalKeys :
        /\ probe.sig = "swipe-pressed"
        /\ ProbedAction(k).a = "ModKey"
        /\ Len(ProbedAction(k).mods) = 2
        /\ inbox # <<>>
        /\ Head(inbox) = Msg("ButtonPress", ProbedAction(k).key, "None", 0)
        /\ modifiers = 12

\* press(code); release(code)
KeyOperations(code) ==
    << [op |-> "press", code |-> code], [op |-> "release", code |-> code] >>

SelectOperations(dir) ==
    << [op |-> "add_modifier", code |-> KEY_LEFTSHIFT] >>
        \o KeyOperations(DirKey(dir))
        \o << [op |-> "remove_modifier", code |-> KEY_LEFTSHIFT] >>

DeleteDispatched(k) ==
    \E i \in DOMAIN DispatchedEvents(k) :
        dir_action(layout.keys[k], DispatchedEvents(k)[i].dir).a = "Delete"

\* C20: when a Delete swipe was dispatched in an interaction, the release
\* forwards press(Backspace); release(Backspace) exactly once, after all
\* Shift+arrow sequences of the interaction; Select, Arrow, Scroll, Key,
\* ModKey, Modified and Command forward nothing on release.
C20_DeleteReleaseSendsBackspace ==
    \A k \in NormalKeys :
        Ended(k) =>
            /\ DeleteDispatched(k) =>
                  Operations(rel[k].msgs) = KeyOperations(KEY_BACKSPACE)
            /\ (/\ ~DeleteDispatched(k)
                /\ DispatchedEvents(k) # <<>>
                /\ dir_action(layout.keys[k],
                              DispatchedEvents(k)[Len(DispatchedEvents(k))].dir).a
                       \in {"Select", "Arrow", "Scroll", "Key", "ModKey",
                            "Modified", "Command"})
               => rel[k].msgs = <<>>

\* a HideKeyboard action was dispatched in the interaction of k
HideKeyboardDispatched(k) ==
    \E i \in DOMAIN DispatchedEvents(k) :
        dir_action(layout.keys[k], DispatchedEvents(k)[i].dir).a = "HideKeyboard"

\* the messages of msgs that tell the UI to hide the keyboard
HideCount(msgs) == Cardinality({ i \in DOMAIN msgs : msgs[i].t = "HideKeyboard" })

\* C21: a HideKeyboard swipe sends nothing at swipe-pressed, and the
\* hide-keyboard signal is sent exactly once, at the released event of the
\* same interaction; it is never sent before the release.
C21_HideKeyboardOnceAtRelease ==
    \A k \in NormalKeys :
        /\ HideCount(sent[k]) = 0
        /\ (probe.sig = "swipe-pressed" /\ ProbedAction(k).a = "HideKeyboard")
              => probe.msgs = <<>>
        /\ (Ended(k) /\ HideKeyboardDispatched(k)) => HideCount(rel[k].msgs) = 1

\* the keys of the layout of one kind of KeyDef that is no Basic key
KeysOfType(type) == { k \in Keys : layout.keys[k].type = type }

\* C22: on a PointerButton key every forwarded pointer release is preceded
\* by the press of the same button in the same interaction, also when the
\* interaction moves far enough to be claimed as a swipe.
C22_PointerReleaseFollowsPress ==
    \A k \in KeysOfType("PointerButton") :
        LET button == layout.keys[k].button
        IN (Ended(k) /\ rel[k].msgs = << PointerRelease(button) >>)
              => \E i \in DOMAIN sent[k] : sent[k][i] = PointerPress(button)

\* C23: a dispatch that fails at run time (a Command that cannot be spawned,
\* a pointer or keyboard forward that fails) is not fatal: the dispatcher
\* keeps running and handles the messages that follow.
C23_DispatchFailureNotFatal ==
    probe.pc = "failed" => running

\* the messages that add or remove a bit of a bitmask
BitMessages == {"ModPress", "ModRelease", "LockPress", "LockRelease"}

C25_CtrlMetaShareBit ==
    \A i \in DOMAIN probe.trace :
        \A held, other \in {"Ctrl", "Meta"} :
            (/\ i + 2 \in DOMAIN probe.trace
             /\ held # other
             /\ probe.trace[i].m = ModPress(Modifier_code(held))
             /\ probe.trace[i + 1].m = ModPress(Modifier_code(other))
             /\ probe.trace[i + 2].m = ModRelease(Modifier_code(other)))
            => /\ HasBit(probe.trace[i].after.modifiers, 4)
               /\ probe.trace[i + 1].after = probe.trace[i].after
               /\ ~HasBit(probe.trace[i + 2].after.modifiers, 4)
               /\ probe.trace[i + 2].fwd =
                      << ModifiersRequest(probe.trace[i + 2].after.modifiers, 0,
                                          probe.trace[i + 2].after.locks, 0) >>

\* Ctrl is pressed, then Meta is pressed and released: no modifier is left
C25_Witness ==
    /\ Len(probe.trace) = 3
    /\ probe.trace[1].m = ModPress(KEY_LEFTCTRL)
    /\ probe.trace[2].m = ModPress(KEY_LEFTMETA)
    /\ probe.trace[3].m = ModRelease(KEY_LEFTMETA)
    /\ modifiers = 0

\* C26: the lookup tables give Shift 1, Ctrl 4, Meta 4, Alt 8 and Capslock 2,
\* Numlock 256, Scrolllock 32768; every Mod key has a modifier bit and every
\* Lock key a lock bit that is not zero; and the scan code of each Modifier
\* variant (Alt 56, Ctrl 29, Shift 42, Meta 125) is a Mod key.
C26_LookupTables ==
    /\ \A i \in DOMAIN probe.trace :
          LET e == probe.trace[i]
              c == e.m.code
          IN /\ e.m.t \in {"ModPress", "ModRelease"} =>
                  /\ c \in {42, 54} => e.bit = 1
                  /\ c \in {29, 97} => e.bit = 4
                  /\ c \in {125, 126} => e.bit = 4
                  /\ c \in {56, 100} => e.bit = 8
                  /\ KeyType(c) = "Mod" => e.bit # 0
             /\ e.m.t \in {"LockPress", "LockRelease"} =>
                  /\ c = 58 => e.bit = 2
                  /\ c = 69 => e.bit = 256
                  /\ c = 70 => e.bit = 32768
                  /\ KeyType(c) = "Lock" => e.bit # 0
    /\ Modifier_code("Alt") = 56 /\ Modifier_code("Ctrl") = 29
    /\ Modifier_code("Shift") = 42 /\ Modifier_code("Meta") = 125
    /\ \A m \in Modifiers : KeyType(Modifier_code(m)) = "Mod"

\* the bits of a right Meta, of Scrolllock and of a left Alt are looked up
C26_Witness ==
    /\ Len(probe.trace) = 3
    /\ probe.trace[1].m = ModPress(KEY_RIGHTMETA) /\ probe.trace[1].bit = 4
    /\ probe.trace[2].m = LockPress(KEY_SCROLLLOCK) /\ probe.trace[2].bit = 32768
    /\ probe.trace[3].m = ModRelease(KEY_LEFTALT) /\ probe.trace[3].bit = 8

\* C27: an add or remove of a modifier or lock for a scan code that has no
\* bit in the table fails as an unrecoverable defect, and is not accepted.
C27_UnknownCodeFails ==
    \A i \in DOMAIN probe.trace :
        (probe.trace[i].m.t \in BitMessages /\ probe.trace[i].bit = 0) => ~running

\* C28: each operation of Keyboard changes its own field only: press and
\* release change no field, add and remove of a modifier change the modifier
\* bitmask only, add and remove of a lock the lock bitmask only, and a layer
\* switch the index of its side only.
C28_OperationsChangeOwnField ==
    \A i \in DOMAIN probe.trace :
        LET e == probe.trace[i]
            op == Keyboard_handle(e.m).op
        IN /\ op \in {"press", "release"} => e.after = e.before
           /\ op \in {"add_modifier", "remove_modifier"} =>
                 e.after = [e.before EXCEPT !.modifiers = e.after.modifiers]
           /\ op \in {"add_lock", "remove_lock"} =>
                 e.after = [e.before EXCEPT !.locks = e.after.locks]
           /\ (op = "switch_layer" /\ e.m.side = "Left") =>
                 e.after = [e.before EXCEPT !.layer = <<e.m.idx, e.before.layer[2]>>]
           /\ (op = "switch_layer" /\ e.m.side = "Right") =>
                 e.after = [e.before EXCEPT !.layer = <<e.before.layer[1], e.m.idx>>]

\* with a modifier and a lock set, the right layer is switched and only the
\* right index changes
C28_Witness ==
    /\ Len(probe.trace) = 3
    /\ probe.trace[1].m = ModPress(KEY_LEFTSHIFT)
    /\ probe.trace[2].m = LockPress(KEY_NUMLOCK)
    /\ probe.trace[3].m = LayerMsg("Right", 1)
    /\ modifiers = 1 /\ locks = 256 /\ layer = <<0, 1>>

\* the keys rendered as a gtk::ToggleButton: the Basic keys of KeyType Mod
\* or Lock
ToggleKeys == { k \in Keys : ~IsKeyButton(layout.keys[k]) }

\* the operations of Keyboard that a tap of toggle key k with the new state
\* is_active must forward
ToggleOperations(k, is_active) ==
    LET code == layout.keys[k].key
    IN IF KeyType(code) = "Mod"
       THEN << [op |-> IF is_active THEN "add_modifier" ELSE "remove_modifier",
                code |-> code] >>
       ELSE << [op |-> IF is_active THEN "add_lock" ELSE "remove_lock",
                code |-> code] >>

\* the bit of the scan code of toggle key k is set in its bitmask
ToggleBitSet(k) ==
    LET code == layout.keys[k].key
    IN IF KeyType(code) = "Mod" THEN HasBit(modifiers, map_mod_key(code))
       ELSE HasBit(locks, map_lock_key(code))

C29_State ==
    \A k \in ToggleKeys :
        /\ \A i \in DOMAIN inbox :
              Keyboard_handle(inbox[i]).op \in {"press", "release"}
                  => inbox[i].code # layout.keys[k].key
        /\ (inbox = <<>> /\ running) => (toggle[k] <=> ToggleBitSet(k))

C29_Step ==
    \A k \in ToggleKeys :
        toggle'[k] # toggle[k] =>
            /\ Len(inbox') = Len(inbox) + 1
            /\ Operations(SubSeq(inbox', Len(inbox) + 1, Len(inbox')))
                  = ToggleOperations(k, ~toggle[k])

\* C29: the taps of a Mod (or Lock) Basic key alternate: the 1st, 3rd, ... tap
\* forwards add_modifier (add_lock) and the 2nd, 4th, ... tap forwards
\* remove_modifier (remove_lock) for the scan code of the key, and no press or
\* release of a key is forwarded for it.
C29_TogglesAlternate == []C29_State /\ [][C29_Step]_vars

\* the second tap of a Lock key has sent the removal of its lock, the first
\* tap having set the bit
C29_Witness ==
    \E k \in ToggleKeys :
        /\ KeyType(layout.keys[k].key) = "Lock"
        /\ ~toggle[k]
        /\ ToggleBitSet(k)
        /\ inbox = << LockRelease(layout.keys[k].key) >>

\* what the freemove handler of the Pointer key sends for one free-move
PointerMoveMessages == << PointerMove, MouseLayer(TRUE), UpdateLayout >>

C30_WitnessReleased ==
    \E k \in KeysOfType("Pointer") :
        /\ Ended(k) /\ moves[k] > 0 /\ inbox = <<>> /\ running
        /\ layer = <<0, 0>>

\* the freemove events of the interaction of k
FreeMoves(k) == SelectSeq(events[k], LAMBDA e : e.sig = "freemove")

\* C31: every move sample, in every recognizer state, emits exactly one
\* freemove before any swipe event of the sample, with dx = x - last_x and
\* dy = last_y - y for the position recorded before, (0, 0) at the begin;
\* over an interaction the dx sum to the last cumulative x and the dy to
\* minus the last cumulative y.
C31_FreeMoveDeltas ==
    \A k \in Buttons :
        LET fm == FreeMoves(k)
        IN /\ Len(fm) = moves[k]
           /\ \A i \in DOMAIN fm :
                 LET last == IF i = 1 THEN <<0, 0>> ELSE << fm[i - 1].x, fm[i - 1].y >>
                 IN /\ fm[i].dx = fm[i].x - last[1]
                    /\ fm[i].dy = last[2] - fm[i].y
           /\ fm # <<>> =>
                 /\ SumOver([i \in DOMAIN fm |-> fm[i].dx], DOMAIN fm) = fm[Len(fm)].x
                 /\ SumOver([i \in DOMAIN fm |-> fm[i].dy], DOMAIN fm) = 0 - fm[Len(fm)].y
           /\ \A i \in DOMAIN events[k] :
                 IsSwipeEv(events[k][i]) => i > 1 /\ events[k][i - 1].sig = "freemove"

\* the second sample of an interaction arrives in state Pressed, after the
\* hold has claimed it, and has emitted its freemove
C31_Witness ==
    \E k \in Buttons :
        /\ key_state[k].s = "Pressed"
        /\ Len(FreeMoves(k)) = 2
        /\ FreeMoves(k)[2].y # 0
        /\ events[k][Len(events[k])].sig = "freemove"

\* (x, y) is within tol degrees of the half axis that (ax, ay) points along,
\* on either side of it: tan of the angle between them is at most tan(tol)
WithinTolerance(x, y, ax, ay, tol) ==
    /\ x * ax + y * ay > 0
    /\ Abs(x * ay - y * ax) * 1000000 <= TanMicro(tol) * (x * ax + y * ay)

\* C32: for every offset that is not (0, 0), direction resolves to Up, Right,
\* Left or Down exactly when the angle of the offset is within
\* SWIPE_ANGLE_TOLERANCE degrees of the -y, +x, -x or +y axis, on either side
\* of the axis, and to no direction otherwise; so (-10, 1) and (-10, -1) both
\* resolve to Left.
C32_DirectionWithinTolerance ==
    (probe.pc = "resolved" /\ << probe.x, probe.y >> # << 0, 0 >>) =>
        LET x == probe.x
            y == probe.y
        IN /\ probe.dir = "Up" <=> WithinTolerance(x, y, 0, -1, SWIPE_ANGLE_TOLERANCE)
           /\ probe.dir = "Right" <=> WithinTolerance(x, y, 1, 0, SWIPE_ANGLE_TOLERANCE)
           /\ probe.dir = "Left" <=> WithinTolerance(x, y, -1, 0, SWIPE_ANGLE_TOLERANCE)
           /\ probe.dir = "Down" <=> WithinTolerance(x, y, 0, 1, SWIPE_ANGLE_TOLERANCE)

\* the sample (x, y) is at Euclidean distance SWIPE_MIN_INCREMENT or more
\* from the stored swipe offset of st
IncrementReached(st, x, y) ==
    (x - st.x) * (x - st.x) + (y - st.y) * (y - st.y)
        >= SWIPE_MIN_INCREMENT * SWIPE_MIN_INCREMENT

C33_Step ==
    \A k \in Keys :
        LET x == last_position'[k][1]
            y == last_position'[k][2]
            sample == moves'[k] = moves[k] + 1
        IN /\ (key_state[k].s = "Swiping" /\ key_state'[k].s = "Swiping"
                  /\ key_state'[k] # key_state[k])
                 => sample /\ IncrementReached(key_state[k], x, y)
           /\ (key_state[k].s = "Swiping" /\ sample) =>
                 IF IncrementReached(key_state[k], x, y)
                 THEN /\ key_state'[k] = Swiping(x, y)
                      /\ Len(events'[k]) <= Len(events[k]) + 2
                 ELSE /\ key_state'[k] = key_state[k]
                      /\ Len(events'[k]) = Len(events[k]) + 1
                      /\ events'[k][Len(events'[k])].sig = "freemove"
           /\ (key_state[k].s = "Unclaimed" /\ key_state'[k].s = "Swiping")
                 => /\ sample
                    /\ key_state'[k] = Swiping(x, y)
                    /\ Len(events'[k]) <= Len(events[k]) + 2

\* C33: in state Swiping the stored swipe offset changes only on a move sample
\* at Euclidean distance SWIPE_MIN_INCREMENT or more from it, and then becomes
\* the (x, y) of that sample whether or not a direction resolved; a smaller
\* move leaves it unchanged and emits no swipe event; the sample that claims
\* the swipe emits one swipe event at most, so never a repeat as well.
C33_SwipeOffsetAnchor == [][C33_Step]_vars

\* after the claim at (10, 0) the sample (0, -10) has moved the stored offset
\* and no direction resolved for it
C33_Witness ==
    \E k \in Buttons :
        /\ key_state[k] = Swiping(0, -10)
        /\ moves[k] = 2
        /\ Len(SwipeEvents(k)) = 1

\* C34: while the interaction that dispatched Layer(side, idx) is held, the
\* active layer of that side stays idx, also when interactions of other keys
\* begin and end meanwhile (the release of the Pointer key, or the release of
\* another Layer swipe of the same side).
C34_HeldLayerStays ==
    \A k \in NormalKeys :
        (OneLayerSwipe(k) /\ active[k] /\ inbox = <<>> /\ running)
            => LayerOf(LayerSwipeAction(k).side) = LayerSwipeAction(k).idx

\* the key events (press, release) forwarded in the interaction of k for
\* scan code c, in order
KeyEvents(k, c) ==
    SelectSeq(Operations(sent[k] \o rel[k].msgs),
              LAMBDA o : o.op \in {"press", "release"} /\ o.code = c)

\* C35: no stuck keys: when no interaction is in progress every forwarded
\* press of a scan code has been followed by its release, and the presses and
\* releases of each scan code alternate, starting with a press.
C35_PressReleaseAlternate ==
    \A k \in NormalKeys :
        Ended(k) =>
            \A c \in { KEY_A, KEY_S, KEY_D, KEY_BACKSPACE } :
                /\ \A i \in DOMAIN KeyEvents(k, c) :
                      KeyEvents(k, c)[i].op = IF i % 2 = 1 THEN "press" ELSE "release"
                /\ Len(KeyEvents(k, c)) % 2 = 0

\* the direction of the last swipe event of the interaction of k that has an
\* action on the key, "None" without such an event
LatestDispatched(k) ==
    IF DispatchedEvents(k) = <<>> THEN "None"
    ELSE DispatchedEvents(k)[Len(DispatchedEvents(k))].dir

\* C36: the direction that the dispatcher records is overwritten by every
\* swipe event whose direction has an action on the key and left as it is by
\* a swipe event whose direction has none; the release runs the release
\* effect of the action of the recorded, latest, direction only, and of no
\* action dispatched earlier in the interaction.
C36_LatestDirectionReleased ==
    \A k \in NormalKeys :
        /\ active[k] => swipe_state[k] = LatestDispatched(k)
        /\ (Ended(k) /\ LatestDispatched(k) # "None") =>
              /\ rel[k].ran = "swipe"
              /\ rel[k].msgs =
                    handle_swipe_action_release(layout.keys[k],
                        dir_action(layout.keys[k], LatestDispatched(k)),
                        LatestDispatched(k))

\* a Layer swipe was followed by a repeat of Delete, and the release has run
\* the release of Delete only
C36_Witness ==
    \E k \in NormalKeys :
        /\ Ended(k)
        /\ Len(DispatchedEvents(k)) = 2
        /\ dir_action(layout.keys[k], DispatchedEvents(k)[1].dir).a = "Layer"
        /\ DispatchedEvents(k)[2].sig = "swipe-repeated"
        /\ dir_action(layout.keys[k], LatestDispatched(k)).a = "Delete"
        /\ rel[k].msgs = << ButtonPress(KEY_BACKSPACE), ButtonRelease(KEY_BACKSPACE) >>

\* C37: after every released event the direction recorded for the key is
\* empty, so the swipe of one interaction never selects the swipe branch of
\* the release of a later interaction of the key.
C37_DirectionEmptyAfterRelease ==
    \A k \in NormalKeys :
        /\ ~active[k] => swipe_state[k] = "None"
        /\ (Ended(k) /\ rel[k].ran = "swipe") => DispatchedEvents(k) # <<>>
        /\ (Ended(k) /\ DispatchedEvents(k) = <<>>) => rel[k].ran = "plain"

\* a later interaction of a key, a tap released by the plain branch while
\* the hold timer of an earlier interaction is still scheduled
C37_Witness ==
    \E k \in NormalKeys :
        /\ Ended(k)
        /\ rel[k].ran = "plain"
        /\ Len(timers[k]) = 2
        /\ swipe_state[k] = "None"

\* C38: each dispatched Arrow event forwards press and release of KEY_UP,
\* KEY_RIGHT, KEY_LEFT or KEY_DOWN for the direction Up, Right, Left or Down,
\* and nothing else; each dispatched Scroll event forwards one pointer scroll:
\* scroll_y(+10) for Up, scroll_y(-10) for Down, scroll_x(-10) for Left and
\* scroll_x(+10) for Right.
C38_ArrowAndScrollByDirection ==
    \A k \in NormalKeys :
        probe.sig \in SwipeSignals =>
            /\ ProbedAction(k).a = "Arrow" =>
                  /\ probe.dir = "Up" => Operations(probe.msgs) = KeyOperations(KEY_UP)
                  /\ probe.dir = "Right" =>
                        Operations(probe.msgs) = KeyOperations(KEY_RIGHT)
                  /\ probe.dir = "Left" =>
                        Operations(probe.msgs) = KeyOperations(KEY_LEFT)
                  /\ probe.dir = "Down" =>
                        Operations(probe.msgs) = KeyOperations(KEY_DOWN)
            /\ ProbedAction(k).a = "Scroll" =>
                  /\ Len(probe.msgs) = 1
                  /\ probe.dir = "Up" =>
                        Pointer_handle(probe.msgs[1]) = DeviceCall("scroll_y", 0, 10)
                  /\ probe.dir = "Down" =>
                        Pointer_handle(probe.msgs[1]) = DeviceCall("scroll_y", 0, -10)
                  /\ probe.dir = "Left" =>
                        Pointer_handle(probe.msgs[1]) = DeviceCall("scroll_x", -10, 0)
                  /\ probe.dir = "Right" =>
                        Pointer_handle(probe.msgs[1]) = DeviceCall("scroll_x", 10, 0)

\* a Scroll event of direction Up has followed one of direction Left on a
\* key that scrolls in every direction
C38_Witness ==
    \E k \in NormalKeys :
        /\ probe.sig = "swipe-repeated"
        /\ probe.dir = "Up"
        /\ ProbedAction(k).a = "Scroll"
        /\ Len(DispatchedEvents(k)) = 2
        /\ DispatchedEvents(k)[1].dir = "Left"
        /\ sent[k] = << ScrollMsg("Left"), ScrollMsg("Up") >>

====
